---- MODULE Spec2Model ----
(***************************************************************************)
(* The response-marker protocol of the NFT marketplace chatbot:            *)
(* extraction and stripping of [SESSION_DATA] / [STORE_PERSONAL] /         *)
(* [STORE_PREFERENCE] marker blocks, the sanitizer, the block parser and   *)
(* the session-state merge of one chat turn.                               *)
(*                                                                         *)
(* A text is a sequence of tokens.  A token is an atomic piece of a        *)
(* string: a whole tag, a JSON literal, a word, a blank, a newline, or a   *)
(* fragment of a tag.  Two adjacent fragments that spell a tag ARE that    *)
(* tag (the string is the same), so every text is kept in canonical form   *)
(* by Canon, which is applied wherever the code concatenates strings.      *)
(***************************************************************************)
EXTENDS Integers, Sequences, FiniteSets, TLC

----------------------------------------------------------------------------
(* Tokens *)

Kinds == {"SESSION_DATA", "STORE_PERSONAL", "STORE_PREFERENCE"}

OpenUpper(kind) ==
  CASE kind = "SESSION_DATA" -> "[SESSION_DATA]"
    [] kind = "STORE_PERSONAL" -> "[STORE_PERSONAL]"
    [] kind = "STORE_PREFERENCE" -> "[STORE_PREFERENCE]"

\* the same tag in another letter case (lower case stands for every
\* spelling that is not the upper-case one)
OpenLower(kind) ==
  CASE kind = "SESSION_DATA" -> "[session_data]"
    [] kind = "STORE_PERSONAL" -> "[store_personal]"
    [] kind = "STORE_PREFERENCE" -> "[store_preference]"

CloseUpper(kind) ==
  CASE kind = "SESSION_DATA" -> "[/SESSION_DATA]"
    [] kind = "STORE_PERSONAL" -> "[/STORE_PERSONAL]"
    [] kind = "STORE_PREFERENCE" -> "[/STORE_PREFERENCE]"

CloseLower(kind) ==
  CASE kind = "SESSION_DATA" -> "[/session_data]"
    [] kind = "STORE_PERSONAL" -> "[/store_personal]"
    [] kind = "STORE_PREFERENCE" -> "[/store_preference]"

OpenTags(kind) == {OpenUpper(kind), OpenLower(kind)}
CloseTags(kind) == {CloseUpper(kind), CloseLower(kind)}
AllOpenTags == UNION {OpenTags(k) : k \in Kinds}
AllCloseTags == UNION {CloseTags(k) : k \in Kinds}
AllTags == AllOpenTags \cup AllCloseTags

\* two adjacent fragments that spell a tag; "" when they spell none
Fused(a, b) ==
  CASE a = "[SESSION_" /\ b = "DATA]" -> "[SESSION_DATA]"
    [] a = "[/SESSION_" /\ b = "DATA]" -> "[/SESSION_DATA]"
    [] a = "[STORE_" /\ b = "PERSONAL]" -> "[STORE_PERSONAL]"
    [] a = "[/STORE_" /\ b = "PERSONAL]" -> "[/STORE_PERSONAL]"
    [] a = "[STORE_" /\ b = "PREFERENCE]" -> "[STORE_PREFERENCE]"
    [] a = "[/STORE_" /\ b = "PREFERENCE]" -> "[/STORE_PREFERENCE]"
    [] OTHER -> ""

\* string concatenation: the canonical token sequence of the string
RECURSIVE Canon(_)
Canon(s) ==
  IF Len(s) < 2 THEN s
  ELSE IF Fused(s[1], s[2]) # ""
       THEN <<Fused(s[1], s[2])>> \o Canon(SubSeq(s, 3, Len(s)))
       ELSE <<s[1]>> \o Canon(Tail(s))

IsCanon(s) == \A i \in 1..(Len(s) - 1) : Fused(s[i], s[i + 1]) = ""

\* str.strip(): whitespace is the blank and the newline
IsSpace(tok) == tok \in {" ", "\n"}

RECURSIVE LStrip(_)
LStrip(s) == IF s # <<>> /\ IsSpace(Head(s)) THEN LStrip(Tail(s)) ELSE s

RECURSIVE RStrip(_)
RStrip(s) ==
  IF s # <<>> /\ IsSpace(s[Len(s)]) THEN RStrip(SubSeq(s, 1, Len(s) - 1)) ELSE s

Strip(s) == RStrip(LStrip(s))

----------------------------------------------------------------------------
(* JSON values and json.loads *)

NoObj == [k \in {} |-> 0]
\* a JSON value: a number n, an object o (of numbers), a string s (of tokens)
\* or a list l (of objects with strings)
JNum(n) == [t |-> "num", n |-> n, o |-> NoObj, s |-> <<>>, l |-> <<>>]
JObj(o) == [t |-> "obj", n |-> 0, o |-> o, s |-> <<>>, l |-> <<>>]
JStr(s) == [t |-> "str", n |-> 0, o |-> NoObj, s |-> s, l |-> <<>>]
JList(l) == [t |-> "list", n |-> 0, o |-> NoObj, s |-> <<>>, l |-> l]

EmptyDict == [k \in {} |-> JNum(0)]

\* the JSON object literals of the token alphabet
IsObjectLiteral(tok) ==
  tok \in {"{\"a\":1}", "{\"a\":2}", "{\"b\":1}", "{\"a\":{\"p\":1}}", "{\"a\":{\"q\":2}}",
           "{\"x\":1,\"y\":2}", "{\"y\":3,\"z\":4}", "{\"last_detail_id\":7}",
           "{\"nft_list\":[{\"id\":\"nft-1\",\"name\":\"Foo\"}]}"}

ObjectLiteral(tok) ==
  CASE tok = "{\"a\":1}" -> [k \in {"a"} |-> JNum(1)]
    [] tok = "{\"a\":2}" -> [k \in {"a"} |-> JNum(2)]
    [] tok = "{\"b\":1}" -> [k \in {"b"} |-> JNum(1)]
    [] tok = "{\"a\":{\"p\":1}}" -> [k \in {"a"} |-> JObj([x \in {"p"} |-> 1])]
    [] tok = "{\"a\":{\"q\":2}}" -> [k \in {"a"} |-> JObj([x \in {"q"} |-> 2])]
    [] tok = "{\"x\":1,\"y\":2}" -> [k \in {"x", "y"} |-> IF k = "x" THEN JNum(1) ELSE JNum(2)]
    [] tok = "{\"y\":3,\"z\":4}" -> [k \in {"y", "z"} |-> IF k = "y" THEN JNum(3) ELSE JNum(4)]
    [] tok = "{\"last_detail_id\":7}" -> [k \in {"last_detail_id"} |-> JNum(7)]
    [] tok = "{\"nft_list\":[{\"id\":\"nft-1\",\"name\":\"Foo\"}]}" ->
         [k \in {"nft_list"} |-> JList(<<[id |-> "nft-1", name |-> "Foo"]>>)]

\* tokens that may stand inside a JSON string literal: no quote, no control
\* character
InsideString(tok) ==
  /\ tok # "\n"
  /\ ~IsObjectLiteral(tok)
  /\ tok \notin {"{\"k\":\"", "\"}"}

\* json.loads(text): "dict" with the object, "other" for JSON that is no
\* object, "error" for JSONDecodeError
JsonLoads(s) ==
  IF Len(s) = 1 /\ IsObjectLiteral(s[1])
    THEN [res |-> "dict", val |-> ObjectLiteral(s[1])]
  ELSE IF Len(s) = 1 /\ s[1] = "[1]"
    THEN [res |-> "other", val |-> EmptyDict]
  ELSE IF /\ Len(s) >= 2
          /\ s[1] = "{\"k\":\""
          /\ s[Len(s)] = "\"}"
          /\ \A i \in 2..(Len(s) - 1) : InsideString(s[i])
    THEN [res |-> "dict", val |-> [k \in {"k"} |-> JStr(SubSeq(s, 2, Len(s) - 1))]]
  ELSE [res |-> "error", val |-> EmptyDict]

\* dict.update(payload) and {**a, **b}
DictUpdate(d, p) ==
  [k \in (DOMAIN d) \cup (DOMAIN p) |-> IF k \in DOMAIN p THEN p[k] ELSE d[k]]

----------------------------------------------------------------------------
(* Regular expressions of chat_service.py.  A compiled pattern is the      *)
(* marker kind with the IGNORECASE flag.                                   *)

Pattern(kind, icase) == [kind |-> kind, icase |-> icase]

SESSION_DATA_PATTERN == Pattern("SESSION_DATA", TRUE)
SESSION_DATA_STRIP_PATTERN == Pattern("SESSION_DATA", TRUE)
SESSION_DATA_ORPHAN_STRIP_PATTERN == Pattern("SESSION_DATA", TRUE)
STORE_PERSONAL_PATTERN == Pattern("STORE_PERSONAL", FALSE)
STORE_PERSONAL_STRIP_PATTERN == Pattern("STORE_PERSONAL", TRUE)
STORE_PREFERENCE_PATTERN == Pattern("STORE_PREFERENCE", FALSE)
STORE_PREFERENCE_STRIP_PATTERN == Pattern("STORE_PREFERENCE", TRUE)

MatchesOpen(p, tok) ==
  tok = OpenUpper(p.kind) \/ (p.icase /\ tok = OpenLower(p.kind))

MatchesClose(p, tok) ==
  tok = CloseUpper(p.kind) \/ (p.icase /\ tok = CloseLower(p.kind))

Least(I) == IF I = {} THEN 0 ELSE CHOOSE i \in I : \A j \in I : i <= j

\* leftmost match of \[K\](.*?)\[/K\] (DOTALL) at or after from: <<i, j>>,
\* the places of the opener and of the first closer after it; <<0, 0>> if none
NextMatch(p, s, from) ==
  LET i == Least({x \in from..Len(s) : MatchesOpen(p, s[x])})
      j == IF i = 0 THEN 0 ELSE Least({x \in (i + 1)..Len(s) : MatchesClose(p, s[x])})
  IN IF j = 0 THEN <<0, 0>> ELSE <<i, j>>

\* pattern.sub("", text): every non-overlapping match removed, left to right
RECURSIVE SubFrom(_, _, _)
SubFrom(p, s, from) ==
  LET m == NextMatch(p, s, from)
  IN IF m[1] = 0 THEN SubSeq(s, from, Len(s))
     ELSE SubSeq(s, from, m[1] - 1) \o SubFrom(p, s, m[2] + 1)

Sub(p, s) == Canon(SubFrom(p, s, 1))

\* while pattern.search(text): text = pattern.sub("", text)
RECURSIVE SubLoop(_, _)
SubLoop(p, s) == IF NextMatch(p, s, 1)[1] # 0 THEN SubLoop(p, Sub(p, s)) ELSE s

\* re.compile(r"\[K\].*$", DOTALL).sub("", text): the first opener and all
\* that follows it
OrphanSub(p, s) ==
  LET i == Least({x \in 1..Len(s) : MatchesOpen(p, s[x])})
  IN IF i = 0 THEN s ELSE SubSeq(s, 1, i - 1)

\* (mutant) the loop left at the first payload that is no object
RECURSIVE MergePayloadsBreak(_, _, _, _)
MergePayloadsBreak(p, s, from, acc) ==
  LET m == NextMatch(p, s, from)
      j == JsonLoads(Strip(SubSeq(s, m[1] + 1, m[2] - 1)))
  IN IF m[1] = 0 THEN acc
     ELSE IF j.res = "dict"
            THEN MergePayloadsBreak(p, s, m[2] + 1, DictUpdate(acc, j.val))
            ELSE acc

\* for m in pattern.finditer(raw): the merge of the payloads that are objects
RECURSIVE MergePayloads(_, _, _, _)
MergePayloads(p, s, from, acc) ==
  LET m == NextMatch(p, s, from)
      j == JsonLoads(Strip(SubSeq(s, m[1] + 1, m[2] - 1)))
  IN IF m[1] = 0 THEN acc
     ELSE MergePayloads(p, s, m[2] + 1,
                        IF j.res = "dict" THEN DictUpdate(acc, j.val) ELSE acc)

----------------------------------------------------------------------------
(* The extractors and the sanitizer *)

\* (mutant) no pass for the opener that has no closer
ExtractSessionDataNoOrphan(raw) ==
  [payload |-> MergePayloads(SESSION_DATA_PATTERN, raw, 1, EmptyDict),
   stripped |-> Strip(SubLoop(SESSION_DATA_STRIP_PATTERN, raw))]

\* (mutant) the payloads merged, the text handed on with its blocks
ExtractSessionDataKeepText(raw) ==
  [payload |-> MergePayloads(SESSION_DATA_PATTERN, raw, 1, EmptyDict),
   stripped |-> Strip(raw)]

_extract_and_strip_session_data(raw) ==
  LET updates == MergePayloads(SESSION_DATA_PATTERN, raw, 1, EmptyDict)
      closed == SubLoop(SESSION_DATA_STRIP_PATTERN, raw)
      orphan == OrphanSub(SESSION_DATA_ORPHAN_STRIP_PATTERN, closed)
  IN [payload |-> updates, stripped |-> Strip(orphan)]

_extract_and_strip_store_personal(raw) ==
  [payload |-> MergePayloads(STORE_PERSONAL_PATTERN, raw, 1, EmptyDict),
   stripped |-> Strip(Sub(STORE_PERSONAL_STRIP_PATTERN, raw))]

_extract_and_strip_store_preference(raw) ==
  [payload |-> MergePayloads(STORE_PREFERENCE_PATTERN, raw, 1, EmptyDict),
   stripped |-> Strip(Sub(STORE_PREFERENCE_STRIP_PATTERN, raw))]

\* text.split("\n"): the lines of s, as a sequence of token sequences
RECURSIVE SplitLines(_)
SplitLines(s) ==
  LET i == Least({x \in 1..Len(s) : s[x] = "\n"})
  IN IF i = 0 THEN <<s>>
     ELSE <<SubSeq(s, 1, i - 1)>> \o SplitLines(SubSeq(s, i + 1, Len(s)))

\* re.match(r"^\[/?K\]$", line.strip(), re.I) for one of the three kinds
IsBareTagLine(line) ==
  LET t == Strip(line) IN Len(t) = 1 /\ t[1] \in AllTags

\* "\n".join(the lines that are no bare tag)
RECURSIVE JoinKept(_, _)
JoinKept(lines, first) ==
  IF lines = <<>> THEN <<>>
  ELSE IF IsBareTagLine(Head(lines)) THEN JoinKept(Tail(lines), first)
  ELSE (IF first THEN <<>> ELSE <<"\n">>) \o Head(lines) \o JoinKept(Tail(lines), FALSE)

\* (mutant) no pass for the openers that have no closer
SanitizeWithoutOrphanPass(text) ==
  IF text = <<>> \/ Strip(text) = <<>> THEN text
  ELSE
    LET c1 == SubLoop(Pattern("SESSION_DATA", TRUE), text)
        c2 == SubLoop(Pattern("STORE_PERSONAL", TRUE), c1)
        c3 == SubLoop(Pattern("STORE_PREFERENCE", TRUE), c2)
    IN Strip(JoinKept(SplitLines(c3), TRUE))

\* (mutant) the bare tag lines dropped before the orphan pass, not after it
SanitizeLinesBeforeOrphans(text) ==
  IF text = <<>> \/ Strip(text) = <<>> THEN text
  ELSE
    LET c1 == SubLoop(Pattern("SESSION_DATA", TRUE), text)
        c2 == SubLoop(Pattern("STORE_PERSONAL", TRUE), c1)
        c3 == SubLoop(Pattern("STORE_PREFERENCE", TRUE), c2)
        l == JoinKept(SplitLines(c3), TRUE)
        o1 == OrphanSub(Pattern("SESSION_DATA", TRUE), l)
        o2 == OrphanSub(Pattern("STORE_PERSONAL", TRUE), o1)
        o3 == OrphanSub(Pattern("STORE_PREFERENCE", TRUE), o2)
    IN Strip(o3)

_sanitize_response_for_user(text) ==
  IF text = <<>> \/ Strip(text) = <<>> THEN text
  ELSE
    LET c1 == SubLoop(Pattern("SESSION_DATA", TRUE), text)
        c2 == SubLoop(Pattern("STORE_PERSONAL", TRUE), c1)
        c3 == SubLoop(Pattern("STORE_PREFERENCE", TRUE), c2)
        o1 == OrphanSub(Pattern("SESSION_DATA", TRUE), c3)
        o2 == OrphanSub(Pattern("STORE_PERSONAL", TRUE), o1)
        o3 == OrphanSub(Pattern("STORE_PREFERENCE", TRUE), o2)
    IN Strip(JoinKept(SplitLines(o3), TRUE))

----------------------------------------------------------------------------
(* ResponseParser and ContentBlock *)

\* ContentBlock(type, markdown, html, template); a field left None is <<>>
\* (the code reads it as (b.markdown or "")), a template left None is "None"
ContentBlock(type, markdown, html, template) ==
  [type |-> type, markdown |-> markdown, html |-> html, template |-> template]

\* HTML_START + template + "-->" and HTML_END
IsHtmlStart(tok) ==
  tok \in {"<!--HTML_COMPONENT::grid-->", "<!--HTML_COMPONENT::details-->"}

TemplateOf(tok) ==
  CASE tok = "<!--HTML_COMPONENT::grid-->" -> "grid"
    [] tok = "<!--HTML_COMPONENT::details-->" -> "details"

HTML_END == "::END_HTML-->"

\* (mutant) the body of a component matched greedily, to the last HTML_END
NextHtmlMatchGreedy(s, from) ==
  LET i == Least({x \in from..Len(s) : IsHtmlStart(s[x])})
      ends == {x \in (i + 1)..Len(s) : s[x] = HTML_END}
      j == IF i = 0 \/ ends = {} THEN 0 ELSE CHOOSE x \in ends : \A y \in ends : y <= x
  IN IF j = 0 THEN <<0, 0>> ELSE <<i, j>>

\* leftmost match of HTML_START(\w+)-->(.*?)HTML_END at or after from
NextHtmlMatch(s, from) ==
  LET i == Least({x \in from..Len(s) : IsHtmlStart(s[x])})
      j == IF i = 0 THEN 0 ELSE Least({x \in (i + 1)..Len(s) : s[x] = HTML_END})
  IN IF j = 0 THEN <<0, 0>> ELSE <<i, j>>

\* the loop of parse and the text after the last component
RECURSIVE ParseFrom(_, _)
ParseFrom(s, last_end) ==
  LET m == NextHtmlMatch(s, last_end + 1)
      text_before == Strip(SubSeq(s, last_end + 1, m[1] - 1))
      remaining_text == Strip(SubSeq(s, last_end + 1, Len(s)))
  IN IF m[1] = 0
       THEN IF remaining_text # <<>>
              THEN <<ContentBlock("text", remaining_text, <<>>, "None")>>
              ELSE <<>>
       ELSE (IF text_before # <<>>
               THEN <<ContentBlock("text", text_before, <<>>, "None")>>
               ELSE <<>>)
            \o <<ContentBlock("html_component", <<>>,
                              Strip(SubSeq(s, m[1] + 1, m[2] - 1)), TemplateOf(s[m[1]]))>>
            \o ParseFrom(s, m[2])

\* (mutant) parse without the text after the last component
ParseWithoutRemainder(raw_response) ==
  LET blocks == ParseFrom(raw_response, 0)
      n == Len(blocks)
  IN IF blocks = <<>> THEN <<ContentBlock("text", raw_response, <<>>, "None")>>
     ELSE IF n >= 2 /\ blocks[n].type = "text" THEN SubSeq(blocks, 1, n - 1)
     ELSE blocks

Parse(raw_response) ==
  LET blocks == ParseFrom(raw_response, 0)
  IN IF blocks = <<>> THEN <<ContentBlock("text", raw_response, <<>>, "None")>>
     ELSE blocks

\* step 9b of process_message: each text block sanitized again, the blocks
\* that become empty dropped
RECURSIVE SanitizeBlocks(_)
SanitizeBlocks(blocks) ==
  IF blocks = <<>> THEN <<>>
  ELSE
    LET b == Head(blocks)
        cleaned == Strip(_sanitize_response_for_user(b.markdown))
    IN (IF b.type = "text" /\ Strip(b.markdown) # <<>>
          THEN IF cleaned # <<>>
                 THEN <<ContentBlock(b.type, cleaned, b.html, b.template)>>
                 ELSE <<>>
          ELSE <<b>>)
       \o SanitizeBlocks(Tail(blocks))

----------------------------------------------------------------------------
(* State *)

VARIABLES
  users,      \* the external ids of the user rows
  sessions,   \* the session rows: session id -> [user_id, state, updated_at]
  messages,   \* the message rows, in insertion order
  memories,   \* the memory rows, in insertion order
  clock,      \* datetime.utcnow(), a logical time
  turn,       \* the locals of the process_message call in progress
  procs,      \* the locals of the turns that run concurrently
  call,       \* the last call made on the repository or the memory policy
  segs,       \* function under test: the pieces the input text is made of
  fnKind,     \* function under test: the marker kind of the input
  fnName,     \* function under test: the function applied so far
  fnResult    \* function under test: its result

vars ==
  <<users, sessions, messages, memories, clock, turn, procs, call,
    segs, fnKind, fnName, fnResult>>
callVars == <<procs, call>>
dbVars == <<users, sessions, messages, memories, clock, turn, callVars>>
fnVars == <<segs, fnKind, fnName, fnResult>>

\* bounds of the model
MaxTurns == 2
MaxSegs == 3
MaxSanLen == 4

Users == {"u1", "u2"}
SessionIds == {"s1", "s2"}

\* the texts made of at most n pieces of S, as the string they spell
RECURSIVE Concat(_)
Concat(ss) == IF ss = <<>> THEN <<>> ELSE Head(ss) \o Concat(Tail(ss))

Render(ss) == Canon(Concat(ss))

SeqsUpTo(S, n) == UNION {[1..m -> S] : m \in 0..n}

\* what chat() answers: a ChatResponse, or the HTTPException
ChatResponse(session_id, blocks) ==
  [status_code |-> 200, detail |-> <<>>, session_id |-> session_id, blocks |-> blocks]

\* (mutant) the handler that answers with the text of the exception
ChatErrorWithCause(e) ==
  [status_code |-> 500, detail |-> <<"Chat processing failed: ">> \o e,
   session_id |-> "", blocks |-> <<>>]

\* except Exception as e: the exception is logged, and the answer is the
\* same for every exception
ChatError(e) ==
  [status_code |-> 500, detail |-> <<"Chat processing failed. Please try again.">>,
   session_id |-> "", blocks |-> <<>>]

IdleTurn ==
  [pc |-> "idle", user_id |-> "", session_id |-> "", message |-> <<>>,
   context |-> [session_state |-> EmptyDict, memories |-> <<>>],
   response |-> [status_code |-> 0, detail |-> <<>>, session_id |-> "", blocks |-> <<>>],
   raw_response |-> <<>>, storage_json |-> <<>>,
   state_updates |-> EmptyDict, stripped_response |-> <<>>,
   personal_from_llm |-> EmptyDict, preference_from_llm |-> EmptyDict,
   blocks |-> <<>>, sanitized_blocks |-> <<>>, n |-> 0]

NoResult == [payload |-> EmptyDict, stripped |-> <<>>, prev |-> <<>>]

\* no concurrent turn, no call made yet
NoProcs == [p \in {} |-> [pc |-> "idle"]]
NoCall == [op |-> "none", n |-> 0]

----------------------------------------------------------------------------
(* ChatRepository *)

\* the id of a new row (uuid4): an id no row has; ids are opaque, so the
\* first unused one stands for any
NewId(sess) ==
  IF "s1" \notin DOMAIN sess THEN "s1"
  ELSE IF "s2" \notin DOMAIN sess THEN "s2" ELSE "s3"

\* create_session: Session(user_id=user_id, title=title, state={})
create_session(sess, sid, user_id, now) ==
  [x \in (DOMAIN sess) \cup {sid} |->
     IF x = sid THEN [user_id |-> user_id, state |-> EmptyDict, updated_at |-> now]
     ELSE sess[x]]

\* (mutant) the two dicts unpacked in the other order: {**state, **session.state}
UpdateSessionStateOldWins(sess, sid, state, now) ==
  IF sid \in DOMAIN sess
    THEN [sess EXCEPT ![sid].state = DictUpdate(state, sess[sid].state),
                      ![sid].updated_at = now]
    ELSE sess

\* update_session_state: session.state = {**(session.state or {}), **state}
update_session_state(sess, sid, state, now) ==
  IF sid \in DOMAIN sess
    THEN [sess EXCEPT ![sid].state = DictUpdate(sess[sid].state, state),
                      ![sid].updated_at = now]
    ELSE sess

\* add_message: one more row
add_message(msgs, sid, role, content_type) ==
  Append(msgs, [session_id |-> sid, role |-> role, content_type |-> content_type])

\* a Memory row; a value is a string, kept as the sequence of its words
Memory(user_id, memory_type, key, value) ==
  [user_id |-> user_id, memory_type |-> memory_type, key |-> key, value |-> value]

\* select(Memory).where(Memory.user_id == user_id, Memory.key == key)
SelectMemory(mems, user_id, key) ==
  {i \in 1..Len(mems) : mems[i].user_id = user_id /\ mems[i].key = key}

\* the rows of mems except those at the indices in I, in order
RECURSIVE DeleteRows(_, _, _)
DeleteRows(mems, I, i) ==
  IF i > Len(mems) THEN <<>>
  ELSE (IF i \in I THEN <<>> ELSE <<mems[i]>>) \o DeleteRows(mems, I, i + 1)

\* (mutant) the row is added without looking for an existing one
UpsertMemoryAlwaysInsert(mems, user_id, memory_type, key, value) ==
  Append(mems, Memory(user_id, memory_type, key, value))

\* upsert_memory, select and write in one piece: scalar_one_or_none raises
\* MultipleResultsFound on several rows (nothing is written), the row found
\* gets the value, and without a row one is added
upsert_memory(mems, user_id, memory_type, key, value) ==
  LET found == SelectMemory(mems, user_id, key)
  IN IF Cardinality(found) > 1 THEN mems
     ELSE IF found # {}
       THEN [i \in 1..Len(mems) |->
               IF i \in found THEN [mems[i] EXCEPT !.value = value] ELSE mems[i]]
     ELSE Append(mems, Memory(user_id, memory_type, key, value))

\* delete_memory: the row found is deleted
delete_memory(mems, user_id, key) ==
  LET found == SelectMemory(mems, user_id, key)
  IN IF Cardinality(found) = 1 THEN DeleteRows(mems, found, 1) ELSE mems

\* delete_memories_by_type: every row of the user with that type is deleted
delete_memories_by_type(mems, user_id, memory_type) ==
  DeleteRows(mems,
             {i \in 1..Len(mems) :
                mems[i].user_id = user_id /\ mems[i].memory_type = memory_type}, 1)

----------------------------------------------------------------------------
(* The memory write policy, ChatService._extract_and_store_memory.  A user *)
(* message is the sequence of its words, separated by single blanks; the   *)
(* words are made of letters and digits.                                   *)

\* str.lower on a word, on a string
Lower(word) ==
  CASE word = "GRID" -> "grid"
    [] word = "TABLE" -> "table"
    [] word = "ETH" -> "eth"
    [] word = "Alex" -> "alex"
    [] word = "UTC" -> "utc"
    [] OTHER -> word

LowerAll(s) == [i \in 1..Len(s) |-> Lower(s[i])]

\* the keywords a lower-case word contains
Substrings(word) ==
  CASE word = "details" -> {"detail"}
    [] word = "grid" -> {"grid"}
    [] word = "view" -> {"view"}
    [] word = "preference" -> {"prefer", "preference"}
    [] word = "table" -> {"table"}
    [] word = "prefer" -> {"prefer"}
    [] word = "minimal" -> {"minimal"}
    [] word = "style" -> {"style"}
    [] word = "detailed" -> {"detailed", "detail"}
    [] word = "browsing" -> {"browsing"}
    [] word = "list" -> {"list"}
    [] word = "full" -> {"full"}
    [] word = "concise" -> {"concise"}
    [] word = "rich" -> {"rich"}
    [] word = "buying" -> {"buying"}
    [] OTHER -> {}

\* the first words of the key phrases a lower-case word ends with
Suffixes(word) ==
  CASE word = "grid" -> {"grid"}
    [] word = "list" -> {"list"}
    [] word = "full" -> {"full"}
    [] OTHER -> {}

\* the last words of the key phrases a lower-case word starts with
Prefixes(word) ==
  CASE word = "details" -> {"detail"}
    [] word = "view" -> {"view"}
    [] word = "style" -> {"style"}
    [] word = "detailed" -> {"detail"}
    [] word = "browsing" -> {"browsing"}
    [] word = "buying" -> {"buy"}
    [] OTHER -> {}

\* kw in msg_lower, for a keyword of one word or a key phrase of several
In(kw, msg_lower) ==
  IF Len(kw) = 1
    THEN \E i \in 1..Len(msg_lower) : kw[1] \in Substrings(msg_lower[i])
    ELSE \E i \in 1..(Len(msg_lower) - Len(kw) + 1) :
           /\ kw[1] \in Suffixes(msg_lower[i])
           /\ \A j \in 2..(Len(kw) - 1) : msg_lower[i + j - 1] = kw[j]
           /\ kw[Len(kw)] \in Prefixes(msg_lower[i + Len(kw) - 1])

\* the words of msg from position i on are those of phrase, in any letter case
At(phrase, msg, i) ==
  /\ i >= 1
  /\ i + Len(phrase) - 1 <= Len(msg)
  /\ \A j \in 1..Len(phrase) : Lower(msg[i + j - 1]) = phrase[j]

\* a pattern made of groups in a row, each a set of alternative phrases (an
\* optional group has the empty phrase): the places where a match that
\* starts at word i may end, as the place of the word after it
Opt(phrase) == {<<>>, phrase}

RECURSIVE MatchEnds(_, _, _)
MatchEnds(groups, msg, i) ==
  IF groups = <<>> THEN {i}
  ELSE UNION {MatchEnds(Tail(groups), msg, i + Len(phrase)) :
                phrase \in {ph \in Head(groups) : At(ph, msg, i)}}

\* DONT_REMEMBER_PERSONAL.search(msg)
DONT_REMEMBER_PERSONAL(msg) ==
  \E i \in 1..Len(msg) :
    MatchEnds(<< {<<"don't", "remember">>, <<"do", "not", "remember">>, <<"forget">>,
                  <<"don't", "store">>, <<"do", "not", "store">>, <<"remove">>,
                  <<"delete">>},
                 Opt(<<"my">>),
                 {<<"name">>, <<"detail">>, <<"details">>, <<"personal">>, <<"info">>,
                  <<"information">>} >>, msg, i) # {}

\* REMEMBER_ASK_PATTERN.search(msg): its three alternatives; the third ends
\* with \s+, optional groups and \b, so it needs one more word after the verb
REMEMBER_ASK_PATTERN(msg) ==
  \E i \in 1..Len(msg) :
    \/ MatchEnds(<< {<<"remember">>, <<"save">>, <<"store">>, <<"keep">>, <<"share">>,
                     <<"sharing">>},
                    Opt(<<"that">>), Opt(<<"my">>), Opt(<<"this">>),
                    {<<"preference">>, <<"preferences">>, <<"choice">>, <<"choices">>,
                     <<"that", "i", "prefer">>, <<"that", "i", "like">>,
                     <<"i", "prefer">>, <<"i", "like">>} >>, msg, i) # {}
    \/ MatchEnds(<< {<<"this", "is">>, <<"that">>, <<"thats">>, <<"that's">>, <<"that'">>},
                    Opt(<<"my">>),
                    {<<"preference">>, <<"choice">>} >>, msg, i) # {}
    \/ \E e \in MatchEnds(<< {<<"want", "to">>, <<"would", "like", "to">>, <<"please">>},
                             {<<"remember">>, <<"save">>, <<"store">>, <<"keep">>} >>,
                          msg, i) : e <= Len(msg)

\* NAME_PATTERNS, each by the phrases that introduce the name
NAME_PATTERNS ==
  << {<<"call", "me">>, <<"my", "name", "is">>, <<"im">>, <<"i'm">>, <<"i", "am">>,
      <<"this", "is">>},
     {<<"you", "can", "call", "me">>, <<"call", "me">>} >>

\* pat.search(msg): the position after the leftmost introduction that is
\* followed by a word starting with a letter, or 0
NameStart(pat, msg) ==
  Least({k \in 2..Len(msg) :
           /\ msg[k] \notin {"5"}            \* [a-zA-Z] starts the name
           /\ \E phrase \in pat : At(phrase, msg, k - Len(phrase))})

\* the first of NAME_PATTERNS that matches decides (break): the name is the
\* rest of the message, and it is stored unless it is a filler word
RECURSIVE StoreName(_, _, _, _)
StoreName(mems, user_id, msg, pats) ==
  IF pats = <<>> THEN mems
  ELSE LET k == NameStart(Head(pats), msg)
           name == SubSeq(msg, k, Len(msg))
       IN IF k = 0 THEN StoreName(mems, user_id, msg, Tail(pats))
          ELSE IF ~(Len(name) = 1 /\ Lower(name[1]) \in {"me", "i", "a", "the"})
            THEN upsert_memory(mems, user_id, "personal", "display_name", name)
          ELSE mems

\* a JSON value that is absent (dict.get gives None), truth and str of a value
Get(d, key) ==
  IF key \in DOMAIN d THEN d[key]
  ELSE [t |-> "none", n |-> 0, o |-> NoObj, s |-> <<>>, l |-> <<>>]
Truthy(v) ==
  CASE v.t = "none" -> FALSE
    [] v.t = "num" -> v.n # 0
    [] v.t = "str" -> v.s # <<>>
    [] v.t = "obj" -> v.o # NoObj
    [] v.t = "list" -> v.l # <<>>
Str(v) == IF v.t = "str" THEN v.s ELSE IF v.t = "num" THEN <<ToString(v.n)>> ELSE <<"None">>

\* if personal_from_llm.get(key): upsert_memory(..., str(personal_from_llm[key]))
StorePersonal(mems, user_id, personal_from_llm, key) ==
  IF Truthy(Get(personal_from_llm, key))
    THEN upsert_memory(mems, user_id, "personal", key, Str(Get(personal_from_llm, key)))
    ELSE mems

\* COLLECTION_INTEREST_PATTERN.search(msg): the words after the leftmost
\* interested in / like / love / collect, less a leading "the", a leading "collection(s)" and a
\* trailing "collection"; <<>> without a match
CollectionInterest(msg) ==
  LET phrases == {<<"interested", "in">>, <<"like">>, <<"love">>, <<"collect">>}
      k == Least({x \in 2..Len(msg) :
                    \E phrase \in phrases : At(phrase, msg, x - Len(phrase))})
      r == SubSeq(msg, k, Len(msg))
      r1 == IF Len(r) >= 2 /\ Lower(r[1]) = "the" THEN Tail(r) ELSE r
      r2 == IF Len(r1) >= 2 /\ Lower(r1[1]) \in {"collection", "collections"}
              THEN Tail(r1) ELSE r1
  IN IF k = 0 THEN <<>>
     ELSE IF Len(r2) >= 2 /\ Lower(r2[Len(r2)]) = "collection"
       THEN SubSeq(r2, 1, Len(r2) - 1)
     ELSE r2

\* PRICE_RANGE_PATTERN.search(msg): f"under {price_m.group(1)} ETH", or <<>>
PriceRange(msg) ==
  LET k == Least({i \in 1..(Len(msg) - 2) :
                    /\ Lower(msg[i]) \in {"under", "below", "max", "within"}
                    /\ msg[i + 1] \in {"5"}        \* \d+(?:\.\d+)?
                    /\ Lower(msg[i + 2]) = "eth"})
  IN IF k = 0 THEN <<>> ELSE <<"under", msg[k + 1], "ETH">>

\* one dimension resolved from the directive: the value of the directive
\* when it is in the enum, else the first keyword rule that holds; <<>> when
\* nothing is resolved.  rules is a sequence of <<condition, value>>
RECURSIVE FirstRule(_)
FirstRule(rules) ==
  IF rules = <<>> THEN <<>>
  ELSE IF Head(rules)[1] THEN <<Head(rules)[2]>> ELSE FirstRule(Tail(rules))

Resolve(preference_from_llm, key, enum, rules) ==
  LET v == Get(preference_from_llm, key)
  IN IF Truthy(v) /\ LowerAll(Str(v)) \in {<<e>> : e \in enum}
       THEN LowerAll(Str(v))
       ELSE FirstRule(rules)

\* upsert_memory when a value was resolved
Store(mems, user_id, memory_type, key, value) ==
  IF value # <<>> THEN upsert_memory(mems, user_id, memory_type, key, value) ELSE mems

\* (mutant) the forget branch without its return: the personal writes follow
ForgetThenStore(mems, user_id, message, personal_from_llm, preference_from_llm) ==
  StorePersonal(StoreName(delete_memories_by_type(mems, user_id, "personal"), user_id,
                          message, NAME_PATTERNS),
                user_id, personal_from_llm, "display_name")

\* (mutant) the forget branch without its return: the preference follows
ForgetThenStorePreference(mems, user_id, message, personal_from_llm, preference_from_llm) ==
  LET msg_lower == LowerAll(message)
  IN IF DONT_REMEMBER_PERSONAL(message)
       THEN Store(delete_memories_by_type(mems, user_id, "personal"), user_id,
                  "preference", "preferred_view",
                  Resolve(preference_from_llm, "preferred_view", {"grid", "table"},
                          << <<In(<<"table">>, msg_lower), "table">>,
                             <<In(<<"grid">>, msg_lower), "grid">> >>))
     ELSE mems

\* (mutant) the preference branch entered whatever the message asks
StoreWithoutGate(mems, user_id, message, personal_from_llm, preference_from_llm) ==
  LET msg_lower == LowerAll(message)
  IN Store(mems, user_id, "preference", "preferred_view",
           Resolve(preference_from_llm, "preferred_view", {"grid", "table"},
                   << <<In(<<"table">>, msg_lower), "table">>,
                      <<In(<<"grid">>, msg_lower), "grid">> >>))

\* _extract_and_store_memory
_extract_and_store_memory(mems, user_id, message, personal_from_llm, preference_from_llm) ==
  LET msg == message
      msg_lower == LowerAll(msg)
      has(kw) == In(kw, msg_lower)
      p1 == StoreName(mems, user_id, msg, NAME_PATTERNS)
      p2 == StorePersonal(p1, user_id, personal_from_llm, "display_name")
      p3 == StorePersonal(p2, user_id, personal_from_llm, "timezone")
      p4 == StorePersonal(p3, user_id, personal_from_llm, "language")
      pref_view ==
        Resolve(preference_from_llm, "preferred_view", {"grid", "table"},
                << << \/ has(<<"table">>) \/ has(<<"list", "view">>)
                      \/ has(<<"list", "format">>)
                      \/ (has(<<"list">>) /\ (\/ has(<<"view">>) \/ has(<<"prefer">>)
                                              \/ has(<<"preference">>))), "table">>,
                   << \/ has(<<"grid">>) \/ has(<<"card", "view">>)
                      \/ has(<<"grid", "format">>), "grid">> >>)
      detail_level ==
        Resolve(preference_from_llm, "detail_level",
                {"minimal", "standard", "detailed", "full"},
                << << \/ has(<<"more", "detail">>) \/ has(<<"full", "info">>)
                      \/ has(<<"detailed">>), "detailed">>,
                   << \/ has(<<"brief">>) \/ has(<<"quick">>) \/ has(<<"minimal">>)
                      \/ has(<<"less", "detail">>), "minimal">>,
                   << has(<<"standard">>) /\ (has(<<"detail">>) \/ has(<<"info">>)),
                      "standard">> >>)
      response_fmt ==
        Resolve(preference_from_llm, "response_format", {"concise", "balanced", "detailed"},
                << << \/ has(<<"short">>) \/ has(<<"concise">>)
                      \/ has(<<"quick", "answer">>), "concise">>,
                   << \/ has(<<"detailed">>) \/ has(<<"full">>)
                      \/ has(<<"explain", "more">>), "detailed">>,
                   << has(<<"balanced">>), "balanced">> >>)
      style ==
        FirstRule(<< << has(<<"minimal">>) /\ (\/ has(<<"style">>) \/ has(<<"look">>)
                                               \/ has(<<"prefer">>)), "minimal">>,
                     << has(<<"rich">>) \/ has(<<"more", "style">>), "rich">> >>)
      intent ==
        FirstRule(<< << \/ has(<<"just", "browsing">>) \/ has(<<"browsing">>)
                        \/ has(<<"looking", "around">>), "browsing">>,
                     << \/ has(<<"looking", "to", "buy">>) \/ has(<<"want", "to", "buy">>)
                        \/ has(<<"buying">>), "buying">>,
                     << has(<<"collector">>) \/ has(<<"collecting">>), "collecting">>,
                     << \/ has(<<"research">>) \/ has(<<"comparing">>)
                        \/ has(<<"analysis">>), "research">> >>)
      q1 == Store(p4, user_id, "preference", "preferred_view", pref_view)
      q2 == Store(q1, user_id, "preference", "detail_level", detail_level)
      q3 == Store(q2, user_id, "preference", "response_format", response_fmt)
      q4 == Store(q3, user_id, "preference", "style_preference", style)
      q5 == Store(q4, user_id, "intent", "primary_intent", intent)
      q6 == Store(q5, user_id, "intent", "interest_collections", CollectionInterest(msg))
      q7 == Store(q6, user_id, "intent", "price_range_interest", PriceRange(msg))
  IN IF DONT_REMEMBER_PERSONAL(msg)
       THEN delete_memories_by_type(mems, user_id, "personal")
     ELSE IF ~REMEMBER_ASK_PATTERN(msg) /\ preference_from_llm = EmptyDict
       THEN p4
     ELSE q7

----------------------------------------------------------------------------
(* The assistant record of a turn, _build_blocks_json_for_storage: one     *)
(* entry {markdown, html_tools_data} for each block.                       *)

\* the entries of a list that a summary shows
SummaryLimit == 20

\* the text of an entry of nft_list and of an entry of collection_list; the
\* entries have an id and a name, or a name and an nft_count, and no other
\* field
NftText(n) ==
  <<n.id, " ", n.name,
    " () price_eth=None last_sale_eth=None owner= status=None rarity_rank=None">>
CollectionText(c) == <<c.name, " nft_count=", c.nft_count>>

\* "; ".join(parts)
RECURSIVE JoinParts(_)
JoinParts(parts) ==
  IF parts = <<>> THEN <<>>
  ELSE IF Len(parts) = 1 THEN parts[1]
  ELSE parts[1] \o <<"; ">> \o JoinParts(Tail(parts))

\* _nft_list_summary and _collection_list_summary: the first entries joined,
\* and how many more there are
\* texts holds the text of each entry of the list
ListSummary(texts) ==
  LET shown == SubSeq(texts, 1, IF Len(texts) > SummaryLimit THEN SummaryLimit ELSE Len(texts))
      line == JoinParts(shown)
  IN IF texts = <<>> THEN <<>>
     ELSE IF Len(texts) > SummaryLimit
       THEN line \o <<" ... and ", ToString(Len(texts) - SummaryLimit), " more">>
     ELSE line

\* the summary stored for a component of the template, "" once its kind of
\* summary was used: the text made from nft_list for a grid or a table, from
\* collection_list for a collection component, and for details the text
\* made from detail_summary, or else from last_detail_id
ToolsData(template, state_updates, used) ==
  LET t == template
  IN IF t \in {"grid", "table"}
       THEN IF "nft" \notin used
              THEN ListSummary([i \in 1..Len(Get(state_updates, "nft_list").l) |->
                                  NftText(Get(state_updates, "nft_list").l[i])])
              ELSE <<>>
     ELSE IF t \in {"collection_grid", "collection_table"}
       THEN IF "collection" \notin used
              THEN ListSummary([i \in 1..Len(Get(state_updates, "collection_list").l) |->
                                  CollectionText(Get(state_updates, "collection_list").l[i])])
              ELSE <<>>
     ELSE IF t = "details"
       THEN IF "detail" \in used THEN <<>>
            ELSE IF Truthy(Get(state_updates, "detail_summary"))
              THEN <<"detail_summary_text">>
            ELSE IF Truthy(Get(state_updates, "last_detail_id"))
              THEN <<"[details for ">> \o Str(Get(state_updates, "last_detail_id")) \o <<"]">>
            ELSE <<>>
     ELSE <<>>

\* the kind of summary a template uses
UsedBy(template) ==
  IF template \in {"grid", "table"} THEN {"nft"}
  ELSE IF template \in {"collection_grid", "collection_table"} THEN {"collection"}
  ELSE IF template = "details" THEN {"detail"}
  ELSE {}

\* (mutant) the loop over the blocks without the marks nft_used,
\* collection_used and detail_used
RECURSIVE BuildBlocksNoUse(_, _, _)
BuildBlocksNoUse(blocks, state_updates, used) ==
  IF blocks = <<>> THEN <<>>
  ELSE
    LET b == Head(blocks)
    IN IF b.type = "html_component" /\ b.template \notin {"None", ""}
         THEN <<[markdown |-> <<>>,
                 html_tools_data |-> ToolsData(b.template, state_updates, used)]>>
              \o BuildBlocksNoUse(Tail(blocks), state_updates, used)
         ELSE <<[markdown |-> Strip(b.markdown), html_tools_data |-> <<>>]>>
              \o BuildBlocksNoUse(Tail(blocks), state_updates, used)

\* the loop over the blocks
RECURSIVE BuildBlocks(_, _, _)
BuildBlocks(blocks, state_updates, used) ==
  IF blocks = <<>> THEN <<>>
  ELSE
    LET b == Head(blocks)
    IN IF b.type = "html_component" /\ b.template \notin {"None", ""}
         THEN <<[markdown |-> <<>>,
                 html_tools_data |-> ToolsData(b.template, state_updates, used)]>>
              \o BuildBlocks(Tail(blocks), state_updates, used \cup UsedBy(b.template))
         ELSE <<[markdown |-> Strip(b.markdown), html_tools_data |-> <<>>]>>
              \o BuildBlocks(Tail(blocks), state_updates, used)

_build_blocks_json_for_storage(blocks, state_updates) ==
  BuildBlocks(blocks, state_updates, {})

----------------------------------------------------------------------------
(* ChatService.process_message, one action per stage of the pipeline *)

\* what the agent may answer
RawTexts ==
  { <<>>,
    <<"hello">>,
    <<"hello", " ", "[/SESSION_DATA]">>,
    <<"[/SESSION_DATA]">>,
    <<"hello", " ", "[SESSION_DATA]", "{\"x\":1,\"y\":2}", "[/SESSION_DATA]">>,
    <<"hello", "[SESSION_DATA]", "{\"y\":3,\"z\":4}", "[/SESSION_DATA]">>,
    <<"[SESSION_DATA]", "{\"a\":{\"p\":1}}", "[/SESSION_DATA]">>,
    <<"[session_data]", "{\"a\":{\"q\":2}}", "[/session_data]", "\n", "hello">>,
    <<"[SESSION_DATA]", "{\"a\":1}", "[/SESSION_DATA]", "[SESSION_DATA]", "{\"b\":1}",
      "[/SESSION_DATA]">>,
    <<"[SESSION_DATA]", "{\"k\":\"", "[/SESSION_DATA]", "\"}", "[/SESSION_DATA]">>,
    <<"hello", "[store_personal]", "{\"a\":1}", "[/store_personal]">>,
    <<"hello", " ", "[STORE_PREFERENCE]", "{bad json">>,
    <<"hello", "\n", "<!--HTML_COMPONENT::grid-->", "<div>", "::END_HTML-->", "\n", "hello",
      " ", "[SESSION_DATA]", "{\"a\":2}", "[/SESSION_DATA]">>,
    <<"<!--HTML_COMPONENT::details-->", "<div>", "[/STORE_PERSONAL]", "::END_HTML-->">>,
    <<"<!--HTML_COMPONENT::details-->", "<div>", "::END_HTML-->", "<!--HTML_COMPONENT::details-->",
      "<div>", "::END_HTML-->", "[SESSION_DATA]", "{\"last_detail_id\":7}", "[/SESSION_DATA]">>,
    <<"hello", " ", "<!--HTML_COMPONENT::grid-->", "<div>">> }

\* step 4, build_context: the session state and the memories of the user
build_context(sess, mems, user_id, session_id) ==
  [session_state |-> sess[session_id].state,
   memories |-> SelectSeq(mems, LAMBDA row : row.user_id = user_id)]

\* the user messages of the turns
TurnMessages == {<<"my", "name", "is", "al">>, <<"please", "forget", "my", "details">>}

\* steps 1 to 5: the user and the session are looked up or created, the user
\* message is saved, the context and the prompt are built
ReceiveMessage(user_id, session_id, message) ==
  /\ turn.pc \in {"idle", "done", "failed"}
  /\ turn.n < MaxTurns
  /\ users' = users \cup {user_id}
  /\ LET found == session_id # "None" /\ session_id \in DOMAIN sessions
         sid == IF found THEN session_id ELSE NewId(sessions)
     IN /\ sessions' = IF found THEN sessions
                       ELSE create_session(sessions, sid, user_id, clock)
        /\ messages' = add_message(messages, sid, "user", "markdown")
        /\ turn' = [IdleTurn EXCEPT !.pc = "agent", !.user_id = user_id,
                                    !.session_id = sid, !.message = message,
                                    !.context = build_context(sessions', memories,
                                                              user_id, sid),
                                    !.n = turn.n]
  /\ UNCHANGED <<clock, fnVars, memories, callVars>>

\* step 6: run_agent_with_context returns the raw response
RunAgent(raw) ==
  /\ turn.pc = "agent"
  /\ turn' = [turn EXCEPT !.pc = "extract_session", !.raw_response = raw]
  /\ UNCHANGED <<users, sessions, messages, clock, fnVars, memories, callVars>>

\* the exceptions a call may raise
Exceptions == {<<"TimeoutError">>, <<"OperationalError: database is locked">>}

\* step 6, failing: the exception leaves process_message and chat() answers 500
AgentFails(e) ==
  /\ turn.pc = "agent"
  /\ turn' = [turn EXCEPT !.pc = "failed", !.response = ChatError(e), !.n = turn.n + 1]
  /\ UNCHANGED <<users, sessions, messages, clock, fnVars, memories, callVars>>

\* step 7: SESSION_DATA extracted and stripped, the session state merged
ExtractSessionData ==
  /\ turn.pc = "extract_session"
  /\ LET r == _extract_and_strip_session_data(turn.raw_response)
     IN /\ turn' = [turn EXCEPT !.pc = "reconcile",
                                !.state_updates = r.payload,
                                !.stripped_response = r.stripped]
        /\ IF r.payload # EmptyDict
             THEN /\ sessions' = update_session_state(sessions, turn.session_id,
                                                      r.payload, clock + 1)
                  /\ clock' = clock + 1
             ELSE UNCHANGED <<sessions, clock>>
  /\ UNCHANGED <<users, messages, fnVars, memories, callVars>>

\* steps 8 to 10: STORE_PERSONAL, then STORE_PREFERENCE, extracted and
\* stripped; the response sanitized, parsed to blocks, each text block
\* sanitized; the assistant message saved
ReconcileResponse ==
  /\ turn.pc = "reconcile"
  /\ LET p == _extract_and_strip_store_personal(turn.stripped_response)
         q == _extract_and_strip_store_preference(p.stripped)
         stripped == _sanitize_response_for_user(q.stripped)
         blocks == Parse(stripped)
     IN turn' = [turn EXCEPT !.pc = "return",
                             !.personal_from_llm = p.payload,
                             !.preference_from_llm = q.payload,
                             !.stripped_response = stripped,
                             !.blocks = blocks,
                             !.sanitized_blocks = SanitizeBlocks(blocks),
                             !.storage_json =
                               _build_blocks_json_for_storage(blocks, turn.state_updates)]
  /\ messages' = add_message(messages, turn.session_id, "assistant", "blocks_json")
  /\ UNCHANGED <<users, sessions, clock, fnVars, memories, callVars>>

\* step 10, failing: add_message raises, the row is not written, and chat()
\* answers 500; what the steps before have committed stays
AssistantWriteFails(e) ==
  /\ turn.pc = "reconcile"
  /\ turn' = [turn EXCEPT !.pc = "failed", !.response = ChatError(e), !.n = turn.n + 1]
  /\ UNCHANGED <<users, sessions, messages, clock, fnVars, memories, callVars>>

\* step 11 and return session.id, sanitized_blocks
Return ==
  /\ turn.pc = "return"
  /\ memories' = _extract_and_store_memory(memories, turn.user_id, turn.message,
                                           turn.personal_from_llm, turn.preference_from_llm)
  /\ turn' = [turn EXCEPT !.pc = "done", !.n = turn.n + 1,
                          !.response = ChatResponse(turn.session_id, turn.sanitized_blocks)]
  /\ UNCHANGED <<users, sessions, messages, clock, fnVars, callVars>>

Init ==
  /\ users = {}
  /\ sessions = [x \in {} |-> [user_id |-> "", state |-> EmptyDict, updated_at |-> 0]]
  /\ messages = <<>>
  /\ memories = <<>>
  /\ procs = NoProcs
  /\ call = NoCall
  /\ clock = 0
  /\ turn = IdleTurn
  /\ segs = <<>>
  /\ fnKind = "SESSION_DATA"
  /\ fnName = "none"
  /\ fnResult = NoResult

\* user ids are opaque: the first user to send a message is called u1
Next ==
  \/ \E u \in (IF users = {} THEN {"u1"} ELSE Users), sid \in SessionIds \cup {"None"},
        message \in TurnMessages :
       ReceiveMessage(u, sid, message)
  \/ \E raw \in RawTexts : RunAgent(raw)
  \/ \E e \in Exceptions : AgentFails(e)
  \/ ExtractSessionData
  \/ ReconcileResponse
  \/ Return

Spec == Init /\ [][Next]_vars

----------------------------------------------------------------------------
(* The extractors as functions of their input.  The input is a marker kind *)
(* and a text spelled by up to MaxSegs pieces built from that kind's tags. *)

FragmentLeft(kind) == IF kind = "SESSION_DATA" THEN "[SESSION_" ELSE "[STORE_"

FragmentRight(kind) ==
  CASE kind = "SESSION_DATA" -> "DATA]"
    [] kind = "STORE_PERSONAL" -> "PERSONAL]"
    [] kind = "STORE_PREFERENCE" -> "PREFERENCE]"

ProsePieces == {<<"hello">>, <<" ">>}

\* a block in the upper-case spelling of the grammar, or in another case
BlockUpper(kind, json) == <<OpenUpper(kind)>> \o json \o <<CloseUpper(kind)>>
BlockLower(kind, json) == <<OpenLower(kind)>> \o json \o <<CloseLower(kind)>>

ExtractPieces(kind) ==
  ProsePieces
  \cup {<<OpenUpper(kind)>>, <<CloseUpper(kind)>>, <<OpenUpper(kind), "{bad json">>}
  \cup {<<FragmentLeft(kind)>>, <<FragmentRight(kind)>>}
  \cup {BlockUpper(kind, <<j>>) : j \in {"{\"a\":1}", "{\"a\":2}", "{\"b\":1}", "{bad json", "[1]"}}
  \cup {BlockLower(kind, <<"{\"a\":1}">>)}
  \cup {BlockUpper(kind, <<"{\"k\":\"", t, "\"}">>) : t \in {OpenUpper(kind), CloseUpper(kind)}}

InitExtract ==
  /\ users = {}
  /\ sessions = [x \in {} |-> [user_id |-> "", state |-> EmptyDict, updated_at |-> 0]]
  /\ messages = <<>>
  /\ memories = <<>>
  /\ procs = NoProcs
  /\ call = NoCall
  /\ clock = 0
  /\ turn = IdleTurn
  /\ fnKind \in Kinds
  /\ segs \in SeqsUpTo(ExtractPieces(fnKind), MaxSegs)
  /\ fnName = "none"
  /\ fnResult = NoResult

Called(name, r) ==
  /\ fnName = "none"
  /\ fnName' = name
  /\ fnResult' = [payload |-> r.payload, stripped |-> r.stripped, prev |-> <<>>]
  /\ UNCHANGED <<dbVars, segs, fnKind>>

CallExtractSessionData ==
  /\ fnKind = "SESSION_DATA"
  /\ Called("_extract_and_strip_session_data", _extract_and_strip_session_data(Render(segs)))

CallExtractStorePersonal ==
  /\ fnKind = "STORE_PERSONAL"
  /\ Called("_extract_and_strip_store_personal", _extract_and_strip_store_personal(Render(segs)))

CallExtractStorePreference ==
  /\ fnKind = "STORE_PREFERENCE"
  /\ Called("_extract_and_strip_store_preference",
            _extract_and_strip_store_preference(Render(segs)))

NextExtract ==
  \/ CallExtractSessionData
  \/ CallExtractStorePersonal
  \/ CallExtractStorePreference

SpecExtract == InitExtract /\ [][NextExtract]_vars

\* the extractor of a kind
Extractor(kind, text) ==
  CASE kind = "SESSION_DATA" -> _extract_and_strip_session_data(text)
    [] kind = "STORE_PERSONAL" -> _extract_and_strip_store_personal(text)
    [] kind = "STORE_PREFERENCE" -> _extract_and_strip_store_preference(text)

----------------------------------------------------------------------------
(* The sanitizer as a function of its input: a text of up to MaxSanLen     *)
(* tokens, sanitized once and then once more.                              *)

SanitizePieces ==
  { <<"[SESSION_DATA]">>, <<"[/SESSION_DATA]">>, <<"[store_personal]">>,
    <<"[/STORE_PERSONAL]">>, <<"[STORE_PREFERENCE]">>, <<"[SESSION_">>, <<"DATA]">>,
    <<" ">>, <<"\n">>, <<"hello">> }

InitSanitize ==
  /\ users = {}
  /\ sessions = [x \in {} |-> [user_id |-> "", state |-> EmptyDict, updated_at |-> 0]]
  /\ messages = <<>>
  /\ memories = <<>>
  /\ procs = NoProcs
  /\ call = NoCall
  /\ clock = 0
  /\ turn = IdleTurn
  /\ fnKind = "SESSION_DATA"
  /\ segs \in SeqsUpTo(SanitizePieces, MaxSanLen)
  /\ fnName = "none"
  /\ fnResult = NoResult

CallSanitize ==
  /\ fnName = "none"
  /\ fnName' = "sanitize"
  /\ fnResult' = [payload |-> EmptyDict,
                  stripped |-> _sanitize_response_for_user(Render(segs)), prev |-> <<>>]
  /\ UNCHANGED <<dbVars, segs, fnKind>>

CallSanitizeAgain ==
  /\ fnName = "sanitize"
  /\ fnName' = "sanitize_twice"
  /\ fnResult' = [payload |-> EmptyDict,
                  stripped |-> _sanitize_response_for_user(fnResult.stripped),
                  prev |-> fnResult.stripped]
  /\ UNCHANGED <<dbVars, segs, fnKind>>

NextSanitize == CallSanitize \/ CallSanitizeAgain

SpecSanitize == InitSanitize /\ [][NextSanitize]_vars

----------------------------------------------------------------------------
(* The repository as an object of its own: up to MaxCalls calls of its     *)
(* session and memory operations, one after another.                       *)

MaxCalls == 3

RepoStates ==
  { EmptyDict,
    [k \in {"x", "y"} |-> IF k = "x" THEN JNum(1) ELSE JNum(2)],
    [k \in {"y", "z"} |-> IF k = "y" THEN JNum(3) ELSE JNum(4)] }
RepoValues == {<<"grid">>, <<"table">>}

\* the record of a call: the operation, its arguments, and whether its
\* select found a row
Call(op, user_id, session_id, state, memory_type, key, value, found) ==
  [op |-> op, n |-> call.n + 1, user_id |-> user_id, session_id |-> session_id,
   state |-> state, memory_type |-> memory_type, key |-> key, value |-> value,
   found |-> found]

RepoCreateSession(user_id) ==
  /\ call.n < MaxCalls
  /\ "s2" \notin DOMAIN sessions
  /\ sessions' = create_session(sessions, NewId(sessions), user_id, clock)
  /\ call' = Call("create_session", user_id, NewId(sessions), EmptyDict, "", "", <<>>, FALSE)
  /\ UNCHANGED <<users, messages, memories, clock, turn, procs, fnVars>>

RepoUpdateSessionState(session_id, state) ==
  /\ call.n < MaxCalls
  /\ sessions' = update_session_state(sessions, session_id, state, clock + 1)
  /\ clock' = clock + 1
  /\ call' = Call("update_session_state", "", session_id, state, "", "", <<>>,
                  session_id \in DOMAIN sessions)
  /\ UNCHANGED <<users, messages, memories, turn, procs, fnVars>>

RepoUpsertMemory(user_id, memory_type, key, value) ==
  /\ call.n < MaxCalls
  /\ memories' = upsert_memory(memories, user_id, memory_type, key, value)
  /\ call' = Call("upsert_memory", user_id, "", EmptyDict, memory_type, key, value,
                  SelectMemory(memories, user_id, key) # {})
  /\ UNCHANGED <<users, sessions, messages, clock, turn, procs, fnVars>>

RepoDeleteMemory(user_id, key) ==
  /\ call.n < MaxCalls
  /\ memories' = delete_memory(memories, user_id, key)
  /\ call' = Call("delete_memory", user_id, "", EmptyDict, "", key, <<>>,
                  SelectMemory(memories, user_id, key) # {})
  /\ UNCHANGED <<users, sessions, messages, clock, turn, procs, fnVars>>

RepoDeleteMemoriesByType(user_id, memory_type) ==
  /\ call.n < MaxCalls
  /\ memories' = delete_memories_by_type(memories, user_id, memory_type)
  /\ call' = Call("delete_memories_by_type", user_id, "", EmptyDict, memory_type, "", <<>>,
                  \E i \in 1..Len(memories) :
                    memories[i].user_id = user_id /\ memories[i].memory_type = memory_type)
  /\ UNCHANGED <<users, sessions, messages, clock, turn, procs, fnVars>>

InitRepo ==
  /\ users = {}
  /\ sessions = [x \in {} |-> [user_id |-> "", state |-> EmptyDict, updated_at |-> 0]]
  /\ messages = <<>>
  /\ memories = <<>>
  /\ procs = NoProcs
  /\ call = NoCall
  /\ clock = 0
  /\ turn = IdleTurn
  /\ segs = <<>>
  /\ fnKind = "SESSION_DATA"
  /\ fnName = "none"
  /\ fnResult = NoResult

NextRepo ==
  \/ \E u \in Users : RepoCreateSession(u)
  \/ \E sid \in SessionIds, st \in RepoStates : RepoUpdateSessionState(sid, st)
  \/ \E u \in Users, t \in {"personal", "preference"}, k \in {"preferred_view", "display_name"}, v \in RepoValues :
       RepoUpsertMemory(u, t, k, v)
  \/ \E u \in Users, k \in {"preferred_view", "display_name"} : RepoDeleteMemory(u, k)
  \/ \E u \in Users, t \in {"personal", "preference"} : RepoDeleteMemoriesByType(u, t)

SpecRepo == InitRepo /\ [][NextRepo]_vars


----------------------------------------------------------------------------
(* Two turns of process_message that run concurrently.  Each request has   *)
(* its own AsyncSession (expire_on_commit=False), and the event loop may   *)
(* switch from one turn to the other at every await: a turn is cut into    *)
(* one action per await that reads or writes the database.  Each turn's    *)
(* agent text carries a SESSION_DATA payload and a STORE_PREFERENCE        *)
(* directive that names preferred_view.                                    *)

Turns == {"t1", "t2"}

RaceUpdates ==
  { EmptyDict,
    [k \in {"a"} |-> JNum(1)],
    [k \in {"y", "z"} |-> IF k = "y" THEN JNum(3) ELSE JNum(4)] }

NewTurn ==
  [pc |-> "start", user_id |-> "", session_id |-> "", loaded |-> EmptyDict,
   update |-> EmptyDict, value |-> <<>>, found |-> {}]

\* update_session_state, from the assignment on: the session object is the
\* one this request loaded at step 2 (a later select returns the same
\* object and does not refresh its loaded attributes), its state is merged
\* with the update and the row is written at the commit
WriteSessionState(sess, sid, loaded, state, now) ==
  [sess EXCEPT ![sid].state = DictUpdate(loaded, state), ![sid].updated_at = now]

\* upsert_memory, from the branch on: the row the select found gets the
\* value, and without one a row is added
WriteMemory(mems, found, user_id, memory_type, key, value) ==
  IF found # {}
    THEN [i \in 1..Len(mems) |->
            IF i \in found THEN [mems[i] EXCEPT !.value = value] ELSE mems[i]]
    ELSE Append(mems, Memory(user_id, memory_type, key, value))

\* steps 1 and 2: the user is found, the session row is loaded
TurnGetSession(p, user_id, session_id) ==
  /\ procs[p].pc = "start"
  /\ procs' = [procs EXCEPT ![p] = [@ EXCEPT !.pc = "save_user_message",
                                            !.user_id = user_id,
                                            !.session_id = session_id,
                                            !.loaded = sessions[session_id].state]]
  /\ UNCHANGED <<users, sessions, messages, memories, clock, turn, call, fnVars>>

\* step 3: the user message is saved
TurnSaveUserMessage(p) ==
  /\ procs[p].pc = "save_user_message"
  /\ messages' = add_message(messages, procs[p].session_id, "user", "markdown")
  /\ procs' = [procs EXCEPT ![p] = [@ EXCEPT !.pc = "agent"]]
  /\ UNCHANGED <<users, sessions, memories, clock, turn, call, fnVars>>

\* steps 4 to 7, up to the commit of update_session_state: the agent
\* answers, the payload is extracted; an empty payload skips the update
TurnRunAgent(p, update, value) ==
  /\ procs[p].pc = "agent"
  /\ procs' = [procs EXCEPT ![p] = [@ EXCEPT
                 !.pc = IF update # EmptyDict THEN "write_session" ELSE "save_assistant_message",
                 !.update = update, !.value = value]]
  /\ UNCHANGED <<users, sessions, messages, memories, clock, turn, call, fnVars>>

\* step 7, the commit of update_session_state
TurnWriteSession(p) ==
  /\ procs[p].pc = "write_session"
  /\ sessions' = WriteSessionState(sessions, procs[p].session_id, procs[p].loaded,
                                   procs[p].update, clock + 1)
  /\ clock' = clock + 1
  /\ procs' = [procs EXCEPT ![p] = [@ EXCEPT !.pc = "save_assistant_message"]]
  /\ UNCHANGED <<users, messages, memories, turn, call, fnVars>>

\* steps 8 to 10: the assistant message is saved
TurnSaveAssistantMessage(p) ==
  /\ procs[p].pc = "save_assistant_message"
  /\ messages' = add_message(messages, procs[p].session_id, "assistant", "blocks_json")
  /\ procs' = [procs EXCEPT ![p] = [@ EXCEPT !.pc = "select_memory"]]
  /\ UNCHANGED <<users, sessions, memories, clock, turn, call, fnVars>>

\* step 11, the select of upsert_memory; several rows make
\* scalar_one_or_none raise, and the turn fails
TurnSelectMemory(p) ==
  /\ procs[p].pc = "select_memory"
  /\ LET found == SelectMemory(memories, procs[p].user_id, "preferred_view")
     IN procs' = [procs EXCEPT ![p] = [@ EXCEPT
                    !.pc = IF Cardinality(found) > 1 THEN "failed" ELSE "write_memory",
                    !.found = found]]
  /\ UNCHANGED <<users, sessions, messages, memories, clock, turn, call, fnVars>>

\* step 11, the commit of upsert_memory, and the return
TurnWriteMemory(p) ==
  /\ procs[p].pc = "write_memory"
  /\ memories' = WriteMemory(memories, procs[p].found, procs[p].user_id, "preference",
                             "preferred_view", procs[p].value)
  /\ procs' = [procs EXCEPT ![p] = [@ EXCEPT !.pc = "done"]]
  /\ UNCHANGED <<users, sessions, messages, clock, turn, call, fnVars>>

\* both users exist, and two sessions, the first with the state of an
\* earlier turn
InitRace ==
  /\ users = Users
  /\ sessions = [x \in SessionIds |->
                   [user_id |-> "u1",
                    state |-> IF x = "s1"
                                THEN [k \in {"x", "y"} |-> IF k = "x" THEN JNum(1) ELSE JNum(2)]
                                ELSE EmptyDict,
                    updated_at |-> 0]]
  /\ messages = <<>>
  /\ memories = <<>>
  /\ procs = [p \in Turns |-> NewTurn]
  /\ call = NoCall
  /\ clock = 0
  /\ turn = IdleTurn
  /\ segs = <<>>
  /\ fnKind = "SESSION_DATA"
  /\ fnName = "none"
  /\ fnResult = NoResult

NextRace ==
  \E p \in Turns :
    \/ \E u \in Users, sid \in SessionIds : TurnGetSession(p, u, sid)
    \/ TurnSaveUserMessage(p)
    \/ \E update \in RaceUpdates, v \in RepoValues : TurnRunAgent(p, update, v)
    \/ TurnWriteSession(p)
    \/ TurnSaveAssistantMessage(p)
    \/ TurnSelectMemory(p)
    \/ TurnWriteMemory(p)

SpecRace == InitRace /\ [][NextRace]_vars


----------------------------------------------------------------------------
(* The memory write policy called on its own: _extract_and_store_memory    *)
(* with a user, a message and the two directives of the turn, on the       *)
(* memory table left by the calls before.                                  *)

MaxStores == 2

MemoryMessages ==
  { <<"hello">>,
    <<"please", "forget", "my", "details">>,
    <<"my", "name", "is", "al">>,
    <<"forget", "my", "name", "i", "am", "al">>,
    <<"forget", "my", "name", "remember", "i", "prefer", "grid">>,
    <<"i", "like", "grid", "view">>,
    <<"please", "remember", "i", "prefer", "minimal", "style">>,
    <<"remember", "that", "i", "like", "detailed", "GRID">>,
    <<"save", "my", "choice", "browsing", "under", "5", "ETH">> }

\* the payloads of the [STORE_PERSONAL] and [STORE_PREFERENCE] blocks of a turn
Directives ==
  LET personal == [k \in {"display_name", "timezone"} |->
                     IF k = "display_name" THEN JStr(<<"Alex">>) ELSE JStr(<<"UTC">>)]
      valid == [k \in {"preferred_view", "style_preference", "primary_intent"} |->
                  CASE k = "preferred_view" -> JStr(<<"TABLE">>)
                    [] k = "style_preference" -> JStr(<<"rich">>)
                    [] k = "primary_intent" -> JStr(<<"buying">>)]
      other == [k \in {"preferred_view", "detail_level", "response_format"} |->
                  CASE k = "preferred_view" -> JStr(<<"list">>)
                    [] k = "detail_level" -> JStr(<<"full">>)
                    [] k = "response_format" -> JStr(<<"concise">>)]
  IN { [personal |-> EmptyDict, preference |-> EmptyDict],
       [personal |-> personal, preference |-> valid],
       [personal |-> EmptyDict, preference |-> other] }

\* the record of a call of the policy: its arguments, and the types of the
\* records the user had when it was made
StoreCall(user_id, message, personal_from_llm, preference_from_llm) ==
  [op |-> "_extract_and_store_memory", n |-> call.n + 1, user_id |-> user_id,
   message |-> message, personal_from_llm |-> personal_from_llm,
   preference_from_llm |-> preference_from_llm,
   had |-> {memories[i].memory_type :
              i \in {j \in 1..Len(memories) : memories[j].user_id = user_id}}]

StoreMemory(user_id, message, personal_from_llm, preference_from_llm) ==
  /\ call.n < MaxStores
  /\ memories' = _extract_and_store_memory(memories, user_id, message, personal_from_llm,
                                           preference_from_llm)
  /\ call' = StoreCall(user_id, message, personal_from_llm, preference_from_llm)
  /\ UNCHANGED <<users, sessions, messages, clock, turn, procs, fnVars>>

InitMemory ==
  /\ users = Users
  /\ sessions = [x \in {} |-> [user_id |-> "", state |-> EmptyDict, updated_at |-> 0]]
  /\ messages = <<>>
  /\ memories = <<>>
  /\ procs = NoProcs
  /\ call = NoCall
  /\ clock = 0
  /\ turn = IdleTurn
  /\ segs = <<>>
  /\ fnKind = "SESSION_DATA"
  /\ fnName = "none"
  /\ fnResult = NoResult

NextMemory ==
  \E user_id \in Users, message \in MemoryMessages, llm \in Directives :
    StoreMemory(user_id, message, llm.personal, llm.preference)

SpecMemory == InitMemory /\ [][NextMemory]_vars

----------------------------------------------------------------------------
(* The block parser as a function of its input: a text made of up to       *)
(* MaxSpans delimited component spans with a stretch of text before,       *)
(* between and after them.  Each piece is given with what it spells (raw)  *)
(* and with what it holds once trimmed.                                    *)

MaxSpans == 2

TextStretches ==
  { [raw |-> <<>>, trimmed |-> <<>>],
    [raw |-> <<" ", "\n">>, trimmed |-> <<>>],
    [raw |-> <<"hello">>, trimmed |-> <<"hello">>],
    [raw |-> <<"\n", "hello", " ", "hello", " ">>, trimmed |-> <<"hello", " ", "hello">>],
    [raw |-> <<"::END_HTML-->", "\n">>, trimmed |-> <<"::END_HTML-->">>] }

ComponentSpans ==
  { [raw |-> <<"<!--HTML_COMPONENT::grid-->", "\n", "<div>", "\n", "::END_HTML-->">>,
     template |-> "grid", body |-> <<"<div>">>],
    [raw |-> <<"<!--HTML_COMPONENT::details-->", "<div>", " ", "hello", "::END_HTML-->">>,
     template |-> "details", body |-> <<"<div>", " ", "hello">>],
    [raw |-> <<"<!--HTML_COMPONENT::details-->", "<!--HTML_COMPONENT::grid-->",
               "::END_HTML-->">>,
     template |-> "details", body |-> <<"<!--HTML_COMPONENT::grid-->">>],
    [raw |-> <<"<!--HTML_COMPONENT::grid-->", " ", "::END_HTML-->">>,
     template |-> "grid", body |-> <<>>] }

\* the texts: a stretch, then each span followed by a stretch
ParseInputs ==
  UNION {{s \in [1..(2 * n + 1) -> TextStretches \cup ComponentSpans] :
            \A i \in 1..(2 * n + 1) :
              IF i % 2 = 1 THEN s[i] \in TextStretches ELSE s[i] \in ComponentSpans} :
         n \in 0..MaxSpans}

InitParse ==
  /\ users = {}
  /\ sessions = [x \in {} |-> [user_id |-> "", state |-> EmptyDict, updated_at |-> 0]]
  /\ messages = <<>>
  /\ memories = <<>>
  /\ procs = NoProcs
  /\ call = NoCall
  /\ clock = 0
  /\ turn = IdleTurn
  /\ fnKind = "SESSION_DATA"
  /\ segs \in ParseInputs
  /\ fnName = "none"
  /\ fnResult = NoResult

CallParse ==
  /\ fnName = "none"
  /\ fnName' = "parse"
  /\ fnResult' = [blocks |-> Parse(Concat([i \in 1..Len(segs) |-> segs[i].raw]))]
  /\ UNCHANGED <<dbVars, segs, fnKind>>

NextParse == CallParse

SpecParse == InitParse /\ [][NextParse]_vars

----------------------------------------------------------------------------
(* The storage builder as a function of its input: up to MaxBlocks blocks  *)
(* and a SessionData payload with an nft_list of up to MaxList entries.    *)

MaxBlocks == 3
MaxList == 21

StorageBlocks ==
  {ContentBlock("text", <<"hello">>, <<>>, "None")}
  \cup {ContentBlock("html_component", <<>>, <<"<div>">>, t) :
          t \in {"grid", "table", "details", "collection_grid"}}

\* a payload with an nft_list of n entries, and with a collection_list of
\* two entries and a last_detail_id when asked for
StoragePayload(n, collections, detail) ==
  LET nfts == [k \in {"nft_list"} |->
                 JList([i \in 1..n |-> [id |-> ToString(i), name |-> "Foo"]])]
      cols == IF collections
                THEN [k \in {"collection_list"} |->
                        JList(<<[name |-> "Apes", nft_count |-> "3"],
                                [name |-> "Cats", nft_count |-> "0"]>>)]
                ELSE EmptyDict
      det == IF detail THEN [k \in {"last_detail_id"} |-> JNum(7)] ELSE EmptyDict
  IN DictUpdate(DictUpdate(nfts, cols), det)

InitStorage ==
  /\ users = {}
  /\ sessions = [x \in {} |-> [user_id |-> "", state |-> EmptyDict, updated_at |-> 0]]
  /\ messages = <<>>
  /\ memories = <<>>
  /\ procs = NoProcs
  /\ call = NoCall
  /\ clock = 0
  /\ \E blocks \in SeqsUpTo(StorageBlocks, MaxBlocks), n \in 0..MaxList,
        collections \in BOOLEAN, detail \in BOOLEAN :
       turn = [IdleTurn EXCEPT !.blocks = blocks,
                               !.state_updates = StoragePayload(n, collections, detail)]
  /\ fnKind = "SESSION_DATA"
  /\ segs = <<>>
  /\ fnName = "none"
  /\ fnResult = NoResult

CallBuildBlocks ==
  /\ fnName = "none"
  /\ fnName' = "_build_blocks_json_for_storage"
  /\ turn' = [turn EXCEPT !.storage_json =
                            _build_blocks_json_for_storage(turn.blocks, turn.state_updates)]
  /\ UNCHANGED <<users, sessions, messages, memories, clock, callVars, segs, fnKind, fnResult>>

NextStorage == CallBuildBlocks

SpecStorage == InitStorage /\ [][NextStorage]_vars

-----------------------------------------------------------------------------
(* Steps 7 to 11 of process_message as a function of the agent's answer:   *)
(* the answer is spelled by up to MaxSegs pieces of all three marker       *)
(* kinds, prose and a component; the write of the assistant message may    *)
(* fail.                                                                   *)

ResponsePieces ==
  { <<"hello">>, <<"\n">>,
    <<"[SESSION_DATA]">>, <<"[/SESSION_DATA]">>,
    BlockUpper("SESSION_DATA", <<"{\"a\":2}">>),
    BlockUpper("STORE_PERSONAL", <<"{\"a\":1}">>),
    BlockUpper("STORE_PREFERENCE", <<"{\"b\":1}">>),
    <<"<!--HTML_COMPONENT::grid-->", "<div>", "::END_HTML-->">>,
    <<"Here are your NFTs:", "\n", "\n", "<!--HTML_COMPONENT::grid-->", "<div>", "::END_HTML-->",
      "\n", "\n", "Enjoy!", " ", "[SESSION_DATA]",
      "{\"nft_list\":[{\"id\":\"nft-1\",\"name\":\"Foo\"}]}", "[/SESSION_DATA]">> }

\* the state after steps 1 to 6 of the first turn of u1
InitRespond ==
  /\ users = {"u1"}
  /\ sessions = create_session(<<>>, "s1", "u1", 0)
  /\ messages = add_message(<<>>, "s1", "user", "markdown")
  /\ memories = <<>>
  /\ procs = NoProcs
  /\ call = NoCall
  /\ clock = 0
  /\ segs \in SeqsUpTo(ResponsePieces, MaxSegs)
  /\ turn = [IdleTurn EXCEPT !.pc = "extract_session", !.user_id = "u1",
                             !.session_id = "s1", !.message = <<"hello">>,
                             !.raw_response = Render(segs)]
  /\ fnKind = "SESSION_DATA"
  /\ fnName = "none"
  /\ fnResult = NoResult

NextRespond ==
  \/ ExtractSessionData
  \/ ReconcileResponse
  \/ \E e \in Exceptions : AssistantWriteFails(e)
  \/ Return

SpecRespond == InitRespond /\ [][NextRespond]_vars


----------------------------------------------------------------------------
(* Properties *)

NoTag(t) == \A i \in 1..Len(t) : t[i] \notin AllTags
NoTagOf(kind, t) == \A i \in 1..Len(t) : t[i] \notin OpenTags(kind) \cup CloseTags(kind)
NoOpenerOf(kind, t) == \A i \in 1..Len(t) : t[i] \notin OpenTags(kind)

\* a piece that is a block of the kind: opener, JSON text, closer
IsBlock(kind, piece) ==
  /\ Len(piece) >= 3
  /\ piece[1] \in OpenTags(kind)
  /\ piece[Len(piece)] \in CloseTags(kind)
JsonText(piece) == SubSeq(piece, 2, Len(piece) - 1)
\* a well-formed block: its JSON text is an object
WellFormedBlock(kind, piece) ==
  IsBlock(kind, piece) /\ JsonLoads(JsonText(piece)).res = "dict"
JsonOf(piece) == JsonLoads(JsonText(piece)).val
\* a well-formed block whose JSON text holds no tag
SimpleBlock(kind, piece) == WellFormedBlock(kind, piece) /\ NoTag(JsonText(piece))
\* a block whose payload is no JSON object
MalformedBlock(kind, piece) ==
  IsBlock(kind, piece) /\ JsonLoads(JsonText(piece)).res # "dict" /\ NoTag(JsonText(piece))

\* payload is the left-to-right merge of the objects of the pieces I of ss:
\* every key of a block, each with the value of the last block that has it
IsMergeOf(payload, ss, I) ==
  /\ DOMAIN payload = UNION {DOMAIN JsonOf(ss[i]) : i \in I}
  /\ \A k \in DOMAIN payload :
       LET last == CHOOSE i \in I :
                     /\ k \in DOMAIN JsonOf(ss[i])
                     /\ \A j \in I : k \in DOMAIN JsonOf(ss[j]) => j <= i
       IN payload[k] = JsonOf(ss[last])[k]

ProseOf(ss) == Render(SelectSeq(ss, LAMBDA piece : piece \in ProsePieces))
Without(ss, i) == SubSeq(ss, 1, i - 1) \o SubSeq(ss, i + 1, Len(ss))

\* C1: every block process_message returns is marker-free: no opening or
\* closing tag of the three kinds in the markdown of a text block or in the
\* body of a component block, wherever in a line the tag stands.
C1_ReturnedBlocksMarkerFree ==
  turn.pc = "done" =>
    \A i \in 1..Len(turn.sanitized_blocks) :
      /\ NoTag(turn.sanitized_blocks[i].markdown)
      /\ NoTag(turn.sanitized_blocks[i].html)

\* the lines of t are its longest stretches without a newline; a bare tag
\* line holds one tag and, beside it, blanks only
IsLine(t, a, b) ==
  /\ a = 1 \/ t[a - 1] = "\n"
  /\ b = Len(t) \/ t[b + 1] = "\n"
  /\ \A i \in a..b : t[i] # "\n"
HasBareTagLine(t) ==
  \E a \in 1..Len(t), b \in 1..Len(t) :
    /\ IsLine(t, a, b)
    /\ \E i \in a..b : t[i] \in AllTags /\ \A j \in (a..b) \ {i} : t[j] = " "

\* C2: the output of the sanitizer holds no opening tag of any of the three
\* kinds, in any letter case, and no line that, trimmed, is a bare opening or
\* closing tag.
C2_SanitizedHasNoOpenerNorTagLine ==
  fnName \in {"sanitize", "sanitize_twice"} =>
    /\ IsCanon(fnResult.stripped)
    /\ \A i \in 1..Len(fnResult.stripped) : fnResult.stripped[i] \notin AllOpenTags
    /\ ~HasBareTagLine(fnResult.stripped)

\* a text with a closed pair, an opener without closer and a line that is
\* left as a bare closing tag was sanitized to "hello"
C2_Witness ==
  /\ fnName = "sanitize"
  /\ Render(segs) = <<"hello", "\n", "[/SESSION_DATA]", "[store_personal]">>
  /\ fnResult.stripped = <<"hello">>

\* C3: the sanitizer is idempotent: sanitizing its output again gives the
\* same text.
C3_SanitizerIdempotent ==
  fnName = "sanitize_twice" => fnResult.stripped = fnResult.prev

\* a text with a stray tag line and an opener of another kind was sanitized
\* twice; the first pass changed it and left text
C3_Witness ==
  /\ fnName = "sanitize_twice"
  /\ Render(segs) = <<"[/SESSION_DATA]", "\n", "hello", "[store_personal]">>
  /\ fnResult.prev = <<"hello">>
  /\ fnResult.stripped = <<"hello">>

\* C4: for a text that holds a well-formed [SESSION_DATA]<json object>
\* [/SESSION_DATA] block amid prose, whatever the object (a string value may
\* spell a tag), the payload is the JSON content and the stripped text holds
\* no trace of the tags.
C4_WellFormedSessionDataExtracted ==
  \A i \in 1..Len(segs) :
    ( /\ fnName = "_extract_and_strip_session_data"
      /\ WellFormedBlock("SESSION_DATA", segs[i])
      /\ \A j \in (1..Len(segs)) \ {i} : segs[j] \in ProsePieces )
    => /\ fnResult.payload = JsonOf(segs[i])
       /\ NoTagOf("SESSION_DATA", fnResult.stripped)

\* C5: for each kind, when a text holds several well-formed blocks of that
\* kind (amid prose), the payload is the left-to-right shallow merge of the
\* blocks' objects.
C5_BlocksMergedLeftToRight ==
  LET blocks == {i \in 1..Len(segs) : SimpleBlock(fnKind, segs[i])}
  IN ( /\ fnName # "none"
       /\ Cardinality(blocks) >= 2
       /\ \A j \in (1..Len(segs)) \ blocks : segs[j] \in ProsePieces )
     => IsMergeOf(fnResult.payload, segs, blocks)

\* C6: a block whose payload is no JSON object is discarded locally: the
\* payload and the stripped text are what they are for the text without that
\* block (it adds no key, stops nothing, the blocks before and after it
\* contribute as they do without it), its span is removed, and where the
\* blocks around it are written as the grammar spells them the payload is
\* the merge of their objects.
C6_MalformedBlockDiscardedLocally ==
  \A i \in 1..Len(segs) :
    ( /\ fnName # "none"
      /\ MalformedBlock(fnKind, segs[i])
      /\ \A j \in (1..Len(segs)) \ {i} :
           \/ segs[j] \in ProsePieces
           \/ SimpleBlock(fnKind, segs[j])
           \/ MalformedBlock(fnKind, segs[j]) )
    => LET good == {j \in 1..Len(segs) : SimpleBlock(fnKind, segs[j])}
       IN /\ fnResult.payload = Extractor(fnKind, Render(Without(segs, i))).payload
          /\ fnResult.stripped = Strip(ProseOf(segs))
          /\ DOMAIN fnResult.payload \subseteq UNION {DOMAIN JsonOf(segs[j]) : j \in good}
          /\ (\A j \in good : segs[j][1] = OpenUpper(fnKind))
               => IsMergeOf(fnResult.payload, segs, good)

\* a malformed block between two well-formed ones: both contribute
C6_Witness ==
  /\ fnName = "_extract_and_strip_store_personal"
  /\ segs = <<BlockUpper("STORE_PERSONAL", <<"{\"a\":1}">>),
              BlockUpper("STORE_PERSONAL", <<"{bad json">>),
              BlockUpper("STORE_PERSONAL", <<"{\"b\":1}">>)>>
  /\ fnResult.payload = DictUpdate(ObjectLiteral("{\"a\":1}"), ObjectLiteral("{\"b\":1}"))
  /\ fnResult.stripped = <<>>

\* C7: for a text whose [SESSION_DATA] opener has no closing tag after it,
\* _extract_and_strip_session_data returns an empty payload and the trimmed
\* text that precedes the opener.
C7_UnclosedSessionData ==
  LET t == Render(segs)
      first == Least({i \in 1..Len(t) : t[i] \in OpenTags("SESSION_DATA")})
  IN ( /\ fnName = "_extract_and_strip_session_data"
       /\ first # 0
       /\ \A j \in (first + 1)..Len(t) : t[j] \notin CloseTags("SESSION_DATA") )
     => /\ fnResult.payload = EmptyDict
        /\ fnResult.stripped = Strip(SubSeq(t, 1, first - 1))

\* "hello [SESSION_DATA]{bad json" gives the empty payload and "hello"
C7_Witness ==
  /\ fnName = "_extract_and_strip_session_data"
  /\ Render(segs) = <<"hello", " ", "[SESSION_DATA]", "{bad json">>
  /\ fnResult.payload = EmptyDict
  /\ fnResult.stripped = <<"hello">>

\* C8: the extractor of every kind strips orphans: when the text has an
\* opener of the kind with no closer after it, the stripped text holds no
\* opener of the kind; and no closed pair is left in the stripped text.
C8_OrphanStrippedByEveryExtractor ==
  LET t == Render(segs)
      r == fnResult.stripped
  IN fnName # "none" =>
       /\ (\E i \in 1..Len(t) :
             /\ t[i] \in OpenTags(fnKind)
             /\ \A j \in (i + 1)..Len(t) : t[j] \notin CloseTags(fnKind))
            => NoOpenerOf(fnKind, r)
       /\ ~\E i \in 1..Len(r), j \in 1..Len(r) :
             i < j /\ r[i] \in OpenTags(fnKind) /\ r[j] \in CloseTags(fnKind)

\* the same text with every tag in the upper-case spelling
UpperCase(t) ==
  [i \in 1..Len(t) |->
     IF \E k \in Kinds : t[i] = OpenLower(k)
       THEN OpenUpper(CHOOSE k \in Kinds : t[i] = OpenLower(k))
     ELSE IF \E k \in Kinds : t[i] = CloseLower(k)
       THEN CloseUpper(CHOOSE k \in Kinds : t[i] = CloseLower(k))
     ELSE t[i]]

\* C9: tag names are case-insensitive for all three kinds, in extraction and
\* in stripping: a text of well-formed blocks and prose gives the payload and
\* the stripped text of the same text with upper-case tags.
C9_TagNamesCaseInsensitive ==
  ( /\ fnName # "none"
    /\ \A j \in 1..Len(segs) : segs[j] \in ProsePieces \/ SimpleBlock(fnKind, segs[j]) )
  => LET upper == Extractor(fnKind, UpperCase(Render(segs)))
     IN /\ fnResult.payload = upper.payload
        /\ fnResult.stripped = upper.stripped

\* C10: session state changes only by shallow merge: the step of a turn that
\* applies the extracted SESSION_DATA payload leaves the state with every
\* top-level key of the payload set to the payload's value (a nested object is
\* replaced whole) and every other key as it was; no other step changes the
\* state of a session.
C10_SessionStateShallowMerge ==
  [][ /\ (turn.pc = "extract_session" /\ turn'.pc = "reconcile") =>
           LET sid == turn.session_id
               old == sessions[sid].state
               update == turn'.state_updates
               new == sessions'[sid].state
           IN /\ DOMAIN new = (DOMAIN old) \cup (DOMAIN update)
              /\ \A k \in DOMAIN update : new[k] = update[k]
              /\ \A k \in (DOMAIN old) \ (DOMAIN update) : new[k] = old[k]
              /\ \A s \in (DOMAIN sessions) \ {sid} : sessions'[s] = sessions[s]
      /\ ~(turn.pc = "extract_session" /\ turn'.pc = "reconcile") =>
           \A s \in DOMAIN sessions : sessions'[s].state = sessions[s].state
    ]_vars

\* the state {"x":1,"y":2} was merged with the update {"y":3,"z":4}
C10_Witness ==
  /\ turn.pc = "reconcile"
  /\ turn.state_updates = ObjectLiteral("{\"y\":3,\"z\":4}")
  /\ sessions[turn.session_id].state =
       [k \in {"x", "y", "z"} |->
          CASE k = "x" -> JNum(1) [] k = "y" -> JNum(3) [] k = "z" -> JNum(4)]

\* a step that is a call of op on the repository
IsCall(op) == call'.n # call.n /\ call'.op = op

RowsOf(mems, user_id, key) ==
  {i \in 1..Len(mems) : mems[i].user_id = user_id /\ mems[i].key = key}

AtMostOnePerKey(mems) ==
  \A i, j \in 1..Len(mems) :
    (mems[i].user_id = mems[j].user_id /\ mems[i].key = mems[j].key) => i = j

\* C12: whatever calls of upsert_memory, delete_memory and
\* delete_memories_by_type are made one after another, there is at most one
\* memory row per (user_id, key), and right after an upsert the row of its
\* (user_id, key) carries the value just upserted
C12_MemoryUpsertKeyed ==
  [][/\ AtMostOnePerKey(memories')
     /\ IsCall("upsert_memory") =>
          \E i \in 1..Len(memories') :
            /\ RowsOf(memories', call'.user_id, call'.key) = {i}
            /\ memories'[i].value = call'.value]_vars

\* preferred_view upserted with "table" over an existing row: one row, "table"
C12_Witness ==
  /\ call.op = "upsert_memory"
  /\ call.found
  /\ call.key = "preferred_view"
  /\ call.value = <<"table">>
  /\ \E i \in 1..Len(memories) :
       /\ RowsOf(memories, call.user_id, "preferred_view") = {i}
       /\ memories[i].value = <<"table">>
  /\ Len(memories) = 2


\* C13: when turns run concurrently, every interleaving of their
\* select-then-insert steps leaves at most one memory row per (user_id, key)
C13_ConcurrentUpsertUnique == AtMostOnePerKey(memories)

\* C14: when turns race, every write of the session state is a shallow
\* merge onto the state the row has at that time, so that the final state is
\* the prior state merged with the turns' updates in the order of their
\* writes and a key written by the first writer is still there afterwards
C14_RacingTurnsMergeInWriteOrder ==
  [][\A p \in Turns :
       (procs[p].pc = "write_session" /\ procs'[p].pc # "write_session") =>
         sessions'[procs[p].session_id].state =
           DictUpdate(sessions[procs[p].session_id].state, procs[p].update)]_vars


IsStore == IsCall("_extract_and_store_memory")
TypedRows(mems, user_id, types) ==
  {i \in 1..Len(mems) : mems[i].user_id = user_id /\ mems[i].memory_type \in types}
RECURSIVE RowsOfTypes(_, _)
RowsOfTypes(mems, types) ==
  IF mems = <<>> THEN <<>>
  ELSE (IF Head(mems).memory_type \in types THEN <<Head(mems)>> ELSE <<>>)
       \o RowsOfTypes(Tail(mems), types)

\* C15: a call of the memory policy whose message matches the forget pattern
\* leaves the user without any record of type personal: those the user had
\* are deleted and none is written, whatever the [STORE_PERSONAL] directive
\* holds and whether or not the message also introduces a name.
C15_ForgetBranchExclusive ==
  [][(IsStore /\ DONT_REMEMBER_PERSONAL(call'.message)) =>
       TypedRows(memories', call'.user_id, {"personal"}) = {}]_vars

\* the message both asks to forget and introduces a name, the directive has
\* a display_name, the user had a personal record, and has none afterwards
C15_Witness ==
  /\ call.op = "_extract_and_store_memory"
  /\ call.message = <<"forget", "my", "name", "i", "am", "al">>
  /\ Truthy(Get(call.personal_from_llm, "display_name"))
  /\ "personal" \in call.had
  /\ TypedRows(memories, call.user_id, {"personal"}) = {}

\* C16: a call of the memory policy whose message does not match the
\* remember pattern, with an empty preference directive, leaves the records
\* of type preference and intent as they were: none created, changed or
\* deleted, whatever keywords the message has.
C16_NoImplicitPreference ==
  [][(IsStore /\ ~REMEMBER_ASK_PATTERN(call'.message)
              /\ call'.preference_from_llm = EmptyDict) =>
       RowsOfTypes(memories', {"preference", "intent"})
         = RowsOfTypes(memories, {"preference", "intent"})]_vars

\* "i like grid view" with no directive, for a user who had preference
\* records and still has them: no view is stored for the user
C16_Witness ==
  /\ call.op = "_extract_and_store_memory"
  /\ call.message = <<"i", "like", "grid", "view">>
  /\ call.preference_from_llm = EmptyDict
  /\ "preference" \in call.had
  /\ TypedRows(memories, call.user_id, {"preference"}) # {}
  /\ SelectMemory(memories, call.user_id, "preferred_view") = {}

\* the enum of each dimension that has one
EnumOf(key) ==
  CASE key = "preferred_view" -> {"grid", "table"}
    [] key = "detail_level" -> {"minimal", "standard", "detailed", "full"}
    [] key = "response_format" -> {"concise", "balanced", "detailed"}
    [] key = "style_preference" -> {"minimal", "rich"}
    [] key = "primary_intent" -> {"browsing", "buying", "collecting", "research"}

\* C17: when the preference branch is open, every dimension for which the
\* directive has a value of the dimension's enum gets a record with that
\* value (in lower case), whatever the message says.
C17_DirectiveValueWins ==
  [][(IsStore /\ ~DONT_REMEMBER_PERSONAL(call'.message)
              /\ (REMEMBER_ASK_PATTERN(call'.message)
                  \/ call'.preference_from_llm # EmptyDict)) =>
       \A key \in DOMAIN call'.preference_from_llm \cap
                  {"preferred_view", "detail_level", "response_format",
                   "style_preference", "primary_intent"} :
         LET v == LowerAll(Str(call'.preference_from_llm[key]))
         IN (Len(v) = 1 /\ v[1] \in EnumOf(key)) =>
              \E i \in SelectMemory(memories', call'.user_id, key) :
                memories'[i].value = v]_vars


\* the blocks a text must give: one text block for each stretch that is not
\* blank, holding it trimmed, and one component block for each span, with
\* its type tag and its body, in the order of the text
RECURSIVE ExpectedBlocks(_)
ExpectedBlocks(pieces) ==
  IF pieces = <<>> THEN <<>>
  ELSE LET p == Head(pieces)
       IN (IF "template" \in DOMAIN p
             THEN <<ContentBlock("html_component", <<>>, p.body, p.template)>>
             ELSE IF p.trimmed # <<>>
               THEN <<ContentBlock("text", p.trimmed, <<>>, "None")>>
             ELSE <<>>)
          \o ExpectedBlocks(Tail(pieces))

\* C18: for a text that has a component span or a stretch that is not blank,
\* ResponseParser.parse returns, in the order of the text, exactly one
\* component block for each span, with its type tag and its body, and one
\* text block for each stretch that is not blank, holding it trimmed.
C18_ParserKeepsOrderAndContent ==
  (fnName = "parse" /\ ExpectedBlocks(segs) # <<>>) =>
    fnResult.blocks = ExpectedBlocks(segs)

\* two spans with text before and between them and a blank stretch after
C18_Witness ==
  /\ fnName = "parse"
  /\ Len(segs) = 5
  /\ segs[1].trimmed # <<>> /\ segs[1].raw # segs[1].trimmed
  /\ segs[3].trimmed # <<>>
  /\ segs[5].raw # <<>> /\ segs[5].trimmed = <<>>
  /\ segs[2].template # segs[4].template
  /\ Len(fnResult.blocks) = 4

\* C19: process_message never returns a text block whose markdown is empty
\* or blank, and so ResponseParser.parse gives it none.
C19_NoEmptyTextBlock ==
  turn.pc = "done" =>
    \A i \in 1..Len(turn.sanitized_blocks) :
      turn.sanitized_blocks[i].type = "text" =>
        Strip(turn.sanitized_blocks[i].markdown) # <<>>


\* text that holds nothing of a component: no delimiter and no body
NoHtml(t) ==
  \A i \in 1..Len(t) : ~IsHtmlStart(t[i]) /\ t[i] # HTML_END /\ t[i] # "<div>"

\* C20: the assistant record of a turn holds no component text: neither the
\* markdown nor the summary of any of its entries has a component delimiter
\* or body, also when the agent text has a component opener that is not
\* closed.
C20_NoHtmlStored ==
  turn.pc = "done" =>
    \A i \in 1..Len(turn.storage_json) :
      /\ NoHtml(turn.storage_json[i].markdown)
      /\ NoHtml(turn.storage_json[i].html_tools_data)


\* the kind of summary the template of a component uses, and the key of the
\* payload that holds its data
SummaryKey(template) ==
  CASE template \in {"grid", "table"} -> "nft_list"
    [] template \in {"collection_grid", "collection_table"} -> "collection_list"
    [] template = "details" -> "detail_summary"
    [] OTHER -> "none"

\* C21: in the assistant record of a turn, the entry of the first component
\* of a kind whose data the SessionData payload lacks carries a placeholder,
\* not an empty summary.
C21_PlaceholderWhenNoData ==
  turn.pc = "done" =>
    \A i \in 1..Len(turn.blocks) :
      LET b == turn.blocks[i]
      IN (/\ b.type = "html_component"
          /\ \A j \in 1..(i - 1) :
               turn.blocks[j].type = "html_component" =>
                 SummaryKey(turn.blocks[j].template) # SummaryKey(b.template)
          /\ ~Truthy(Get(turn.state_updates, SummaryKey(b.template))))
         => turn.storage_json[i].html_tools_data # <<>>


\* s is the summary of list: its entries up to the limit, each of width
\* tokens and starting with the field named, one separator between two of
\* them, and " ... and K more" with K the number of entries beyond the
\* limit, exactly when there are some
IsListSummary(s, list, width, field) ==
  LET m == IF Len(list) > SummaryLimit THEN SummaryLimit ELSE Len(list)
      more == Len(list) > SummaryLimit
      body == IF m = 0 THEN 0 ELSE m * (width + 1) - 1
  IN /\ Len(s) = body + (IF more THEN 3 ELSE 0)
     /\ \A i \in 1..m : s[(i - 1) * (width + 1) + 1] = list[i][field]
     /\ \A i \in 1..(m - 1) : s[i * (width + 1)] = "; "
     /\ more => SubSeq(s, body + 1, body + 3)
                  = <<" ... and ", ToString(Len(list) - SummaryLimit), " more">>
     /\ ~more => \A i \in 1..Len(s) : s[i] # " more"

\* C22: in one assistant record, the first component of a kind has the
\* summary of its kind and every later component of that kind has an empty
\* one; the summary of a list shows its first 20 entries in order, and
\* "and K more" with K = length - 20 exactly when the list is longer.
C22_SummaryConsumedOnce ==
  fnName = "_build_blocks_json_for_storage" =>
    \A i \in 1..Len(turn.blocks) :
      LET b == turn.blocks[i]
          data == turn.storage_json[i].html_tools_data
          first == \A j \in 1..(i - 1) :
                     turn.blocks[j].type = "html_component" =>
                       SummaryKey(turn.blocks[j].template) # SummaryKey(b.template)
      IN b.type = "html_component" =>
           /\ ~first => data = <<>>
           /\ (first /\ SummaryKey(b.template) = "nft_list") =>
                IsListSummary(data, turn.state_updates["nft_list"].l, 4, "id")
           /\ (first /\ SummaryKey(b.template) = "collection_list") =>
                IsListSummary(data, Get(turn.state_updates, "collection_list").l, 3, "name")

\* a list of 21 entries shown by a grid and then by a table: the grid has
\* the summary with "1 more", the table has none
C22_Witness ==
  /\ fnName = "_build_blocks_json_for_storage"
  /\ Len(turn.state_updates["nft_list"].l) = SummaryLimit + 1
  /\ Len(turn.blocks) = 3
  /\ turn.blocks[1].template = "grid" /\ turn.blocks[3].template = "table"
  /\ turn.storage_json[1].html_tools_data # <<>>
  /\ turn.storage_json[1].html_tools_data[Len(turn.storage_json[1].html_tools_data) - 1] = "1"
  /\ turn.storage_json[3].html_tools_data = <<>>


\* C23: when the agent call fails, chat() answers 500 with the fixed text
\* "Chat processing failed. Please try again." and no blocks, whatever the
\* exception was; the step writes no assistant message, no session state and
\* no memory, and the user message saved before the call is still the last
\* row of the history
C23_AgentFailureIsGeneric ==
  [][turn.pc = "agent" /\ turn'.pc = "failed" =>
       /\ turn'.response.status_code = 500
       /\ turn'.response.detail = <<"Chat processing failed. Please try again.">>
       /\ turn'.response.blocks = <<>>
       /\ messages' = messages
       /\ sessions' = sessions
       /\ memories' = memories
       /\ messages # <<>>
       /\ messages[Len(messages)] =
            [session_id |-> turn.session_id, role |-> "user", content_type |-> "markdown"]]_vars

\* a second turn fails on a session that has state, for a user that has memories
C23_Witness ==
  /\ turn.pc = "failed"
  /\ turn.raw_response = <<>>
  /\ turn.blocks = <<>>
  /\ turn.response.status_code = 500
  /\ memories # <<>>
  /\ sessions[turn.session_id].state # EmptyDict
  /\ messages[Len(messages)].role = "user"
  /\ \E i \in 1..Len(messages) : messages[i].role = "assistant"


\* the raw agent text of the end-to-end scenario: prose, a grid component,
\* prose, and a SESSION_DATA block with an nft_list of one entry
ScenarioText ==
  <<"Here are your NFTs:", "\n", "\n", "<!--HTML_COMPONENT::grid-->", "<div>", "::END_HTML-->",
    "\n", "\n", "Enjoy!", " ", "[SESSION_DATA]",
    "{\"nft_list\":[{\"id\":\"nft-1\",\"name\":\"Foo\"}]}", "[/SESSION_DATA]">>

\* what the scenario has besides the number of blocks: the session state
\* holds the nft_list, the stored entry of the component is a summary with
\* "nft-1" and "Foo", and no returned block shows a tag
ScenarioEffects ==
  /\ "nft_list" \in DOMAIN sessions[turn.session_id].state
  /\ sessions[turn.session_id].state["nft_list"].l = <<[id |-> "nft-1", name |-> "Foo"]>>
  /\ Len(turn.storage_json) >= 2
  /\ turn.storage_json[2].markdown = <<>>
  /\ \E i, j \in 1..Len(turn.storage_json[2].html_tools_data) :
       /\ turn.storage_json[2].html_tools_data[i] = "nft-1"
       /\ turn.storage_json[2].html_tools_data[j] = "Foo"
  /\ \A i \in 1..Len(turn.response.blocks) :
       /\ NoTag(turn.response.blocks[i].markdown)
       /\ NoTag(turn.response.blocks[i].html)

\* C24 as stated: the scenario returns two blocks, the text "Here are your
\* NFTs:" and the grid component, the session state is merged with nft_list,
\* the stored component entry is a summary with "nft-1" and "Foo", and no
\* returned block shows a marker
C24_ScenarioTwoBlocks ==
  (turn.pc = "done" /\ turn.raw_response = ScenarioText) =>
    /\ turn.response.blocks =
         << ContentBlock("text", <<"Here are your NFTs:">>, <<>>, "None"),
            ContentBlock("html_component", <<>>, <<"<div>">>, "grid") >>
    /\ ScenarioEffects

\* C24: the scenario returns three blocks, the text "Here are your NFTs:",
\* the grid component and the text "Enjoy!" that follows it; the session
\* state is merged with nft_list, the stored component entry is a summary
\* with "nft-1" and "Foo", and no returned block shows a marker
C24_ScenarioThreeBlocks ==
  (turn.pc = "done" /\ turn.raw_response = ScenarioText) =>
    /\ turn.response.blocks =
         << ContentBlock("text", <<"Here are your NFTs:">>, <<>>, "None"),
            ContentBlock("html_component", <<>>, <<"<div>">>, "grid"),
            ContentBlock("text", <<"Enjoy!">>, <<>>, "None") >>
    /\ ScenarioEffects

C24_Witness ==
  /\ turn.pc = "done"
  /\ turn.raw_response = ScenarioText
  /\ turn.response.status_code = 200
  /\ Len(turn.response.blocks) = 3


\* C25: the effects of a turn come in the order user message, context,
\* agent, extraction, sanitization, session-state merge, memory write,
\* history write, result; in particular, when a step of the turn writes
\* memory, the assistant message of the turn is not in the history yet: the
\* last row of the history is still the user message of the turn.
C25_MemoryWriteBeforeHistoryWrite ==
  [][memories' # memories =>
       /\ messages # <<>>
       /\ messages[Len(messages)] =
            [session_id |-> turn.session_id, role |-> "user", content_type |-> "markdown"]]_vars


\* the block of kind that starts at token a of t, and whether it lies in a
\* SESSION_DATA span: after an opener with no closer between the two
IsBlockAt(kind, t, a) ==
  /\ a + 2 <= Len(t)
  /\ t[a] = OpenUpper(kind)
  /\ IsObjectLiteral(t[a + 1])
  /\ t[a + 2] = CloseUpper(kind)
InSessionDataSpan(t, a) ==
  \E i \in 1..(a - 1) :
    /\ t[i] = "[SESSION_DATA]"
    /\ \A c \in (i + 1)..(a - 1) : t[c] # "[/SESSION_DATA]"
\* what the blocks of kind outside every SESSION_DATA span carry
PayloadOutside(kind, t) ==
  LET blocks == {a \in 1..Len(t) : IsBlockAt(kind, t, a) /\ ~InSessionDataSpan(t, a)}
  IN IF blocks = {} THEN EmptyDict ELSE ObjectLiteral(t[(CHOOSE a \in blocks : TRUE) + 1])

\* C26: the extractors run in the order session data, personal, preference,
\* each on the text the one before has stripped: the personal and the
\* preference payload of a turn are those of the blocks outside every
\* SESSION_DATA span, and a STORE_PERSONAL or STORE_PREFERENCE block between
\* a SESSION_DATA opener and its closer, or after an opener without closer,
\* contributes nothing.
C26_StoreBlockInsideSessionDataIgnored ==
  turn.pc \in {"return", "done"} =>
    /\ turn.personal_from_llm = PayloadOutside("STORE_PERSONAL", turn.raw_response)
    /\ turn.preference_from_llm = PayloadOutside("STORE_PREFERENCE", turn.raw_response)

\* a STORE_PERSONAL block between a SESSION_DATA opener and its closer
C26_Witness ==
  /\ turn.pc = "done"
  /\ segs = << <<"[SESSION_DATA]">>, BlockUpper("STORE_PERSONAL", <<"{\"a\":1}">>),
               <<"[/SESSION_DATA]">> >>
  /\ turn.personal_from_llm = EmptyDict
  /\ turn.preference_from_llm = EmptyDict


\* C27: a turn touches only a session of the requesting user: the session
\* whose history and state the turn reads for the context, and whose message
\* rows and state it writes, has the user_id of the user of the turn.
C27_TurnUsesOwnSession ==
  turn.pc # "idle" => sessions[turn.session_id].user_id = turn.user_id


\* C28: a failed turn is reported as failed, returns no blocks, and leaves
\* the session state and the memory records of the user as they were when
\* the turn started (as build_context read them).
C28_FailedTurnChangesNothing ==
  turn.pc = "failed" =>
    /\ turn.response.status_code = 500
    /\ turn.response.blocks = <<>>
    /\ sessions[turn.session_id].state = turn.context.session_state
    /\ SelectSeq(memories, LAMBDA row : row.user_id = turn.user_id) = turn.context.memories


\* C29: the stored assistant record agrees with the blocks returned: it has
\* one entry per returned block, in the same order; the entry of a text
\* block holds the markdown of the block as returned, after its
\* sanitization, and the entry of a component block holds no markdown.
C29_StoredRecordMatchesReturnedBlocks ==
  turn.pc = "done" =>
    /\ Len(turn.storage_json) = Len(turn.response.blocks)
    /\ \A i \in 1..Len(turn.response.blocks) :
         IF turn.response.blocks[i].type = "text"
           THEN /\ turn.storage_json[i].markdown = turn.response.blocks[i].markdown
                /\ turn.storage_json[i].html_tools_data = <<>>
           ELSE turn.storage_json[i].markdown = <<>>


\* the rows of mems but those of type personal of user_id
WithoutPersonal(mems, user_id) ==
  SelectSeq(mems, LAMBDA row : ~(row.user_id = user_id /\ row.memory_type = "personal"))

\* C30: a call of the memory policy whose message matches the forget pattern
\* stops after the deletion: the records afterwards are the records before
\* without the personal ones of the user, so no record of any type is
\* written, the preference and intent records of the user are unchanged
\* whatever the [STORE_PREFERENCE] directive holds and whether or not the
\* message asks to remember a preference, and the records of other users are
\* untouched.
C30_ForgetBranchWritesNothing ==
  [][(IsStore /\ DONT_REMEMBER_PERSONAL(call'.message)) =>
       memories' = WithoutPersonal(memories, call'.user_id)]_vars

\* the message asks to forget and to remember the grid, the directive has a
\* preferred_view, and the user had personal and preference records: the
\* personal ones are gone and the preferred_view is still the table
C30_Witness ==
  /\ call.op = "_extract_and_store_memory"
  /\ call.message = <<"forget", "my", "name", "remember", "i", "prefer", "grid">>
  /\ Get(call.preference_from_llm, "preferred_view") = JStr(<<"list">>)
  /\ {"personal", "preference"} \subseteq call.had
  /\ TypedRows(memories, call.user_id, {"personal"}) = {}
  /\ \E i \in 1..Len(memories) :
       /\ memories[i].user_id = call.user_id
       /\ memories[i].key = "preferred_view"
       /\ memories[i].value = <<"table">>

====
